---------------------------- MODULE Spec2Model ----------------------------
(***************************************************************************)
(* A model of the KMI MIDI device manager:                                 *)
(*   - the SysEx codec            (src/kmiSysEx/kmiSysEx.cpp)              *)
(*   - the port registry          (src/KMI_ports.cpp)                      *)
(*   - the device session         (src/KMI_mdm.cpp)                        *)
(* Each part has its own specification (SpecCodec, SpecPorts, SpecFw) over *)
(* the one set of variables; the variables of the other parts stay at      *)
(* their initial values.                                                   *)
(***************************************************************************)
EXTENDS Integers, Sequences, FiniteSets, TLC

VARIABLES
    \* ---- SysEx codec ----
    charSigned,     \* whether plain char is signed in this build (crc_byte takes a char)
    encIn,          \* the arguments of the last slotEncodePacket call
    frame,          \* the SysEx frame on the wire
    flipped,        \* <<byte index, bit>> of the bit altered in transit, or <<>>
    rxPackets,      \* the signalRxKMIPacket emissions of the last slotDecodePacket call
    decStatus,      \* how the last slotDecodePacket call ended
    codecPc,        \* "idle" | "encoded" | "decoded"
    \* ---- port registry ----
    os,                     \* the platform this build is for
    osIn, osOut,            \* what RtMidi enumerates: the OS ports, by port number
    midiInputPorts,         \* KMI_Ports::midiInputPorts (name -> port number)
    midiOutputPorts,        \* KMI_Ports::midiOutputPorts
    lastMIDIIN_QuNexus,     \* portNameFix's memory of the last MIDIINn digit
    lastMIDIOUT_QuNexus,    \* and of the last MIDIOUTn digit
    portEvents,             \* signalPortUpdated emissions of the last call
    returnValue,            \* what the last checkPortsForChanges returned
    portHist,               \* what the last scan started from and enumerated
    \* ---- device session ----
    mdm,            \* the MidiDeviceManager object: its fields, by name
    fwStep,         \* the last handler that ran: what it emitted and transmitted
    fwHist          \* what has happened since the last update request

codecVars == <<charSigned, encIn, frame, flipped, rxPackets, decStatus, codecPc>>

portVars == <<os, osIn, osOut, midiInputPorts, midiOutputPorts,
              lastMIDIIN_QuNexus, lastMIDIOUT_QuNexus, portEvents, returnValue,
              portHist>>

fwVars == <<mdm, fwStep, fwHist>>

vars == <<codecVars, portVars, fwVars>>

\* what the steps of one part leave alone
notCodecVars == <<portVars, fwVars>>
notPortVars == <<codecVars, fwVars>>
notFwVars == <<codecVars>>

-----------------------------------------------------------------------------
(* Bit operations on unsigned integers *)

RECURSIVE Xor(_, _)
Xor(a, b) ==
    IF a = 0 THEN b
    ELSE IF b = 0 THEN a
    ELSE ((a + b) % 2) + 2 * Xor(a \div 2, b \div 2)

RECURSIVE Pow2(_)
Pow2(n) == IF n = 0 THEN 1 ELSE 2 * Pow2(n - 1)

Bit(v, i) == (v \div Pow2(i)) % 2


\* the lesser of two integers
Min(a, b) == IF a < b THEN a ELSE b

-----------------------------------------------------------------------------
(* midi.h, kmiSysEx.h *)

MIDI_SX_START == 240
MIDI_SX_STOP == 247
kmi_id_1 == 0
kmi_id_2 == 1
kmi_id_3 == 95
SX_PREAMBLE_SIZE_CRC == 6
SX_ENCODE_LEN == 7
MAX_SX_BUFFER_SIZE == 1024
TAIL_LEN == 4

-----------------------------------------------------------------------------
(* CRC: KMI_Encode::crc_byte and KMI_Decode::crc_byte are the same code.   *)
(* The parameter is a plain char: where char is signed, a byte >= 0x80 is  *)
(* sign-extended before the XOR into the 16-bit temp.                      *)

crc_init == 65535

\* crc_byte with the top bit of the byte left out of the checksum
crc_byte_low7(crc, val, sgn) ==
    LET v     == val % 128
        temp  == Xor(crc \div 256, v)
        c1    == (crc * 256) % 65536
        quick == Xor(temp, temp \div 16)
        c2    == Xor(c1, quick)
        q2    == (quick * 32) % 65536
        c3    == Xor(c2, q2)
        q3    == (q2 * 128) % 65536
    IN  Xor(c3, q3)

crc_byte(crc, val, sgn) ==
    LET v     == IF sgn /\ val >= 128 THEN val + 65280 ELSE val
        temp  == Xor(crc \div 256, v)
        c1    == (crc * 256) % 65536
        quick == Xor(temp, temp \div 16)
        c2    == Xor(c1, quick)
        q2    == (quick * 32) % 65536
        c3    == Xor(c2, q2)
        q3    == (q2 * 128) % 65536
    IN  Xor(c3, q3)

-----------------------------------------------------------------------------
(* KMI_Encode.  The encoder state is [msg, hi, cnt, crc, fed]:             *)
(* msg[] up to msgIndex, midi_hi_bits, midi_hi_count, crc; fed lists, for  *)
(* each time crc was set to 0xffff, the bytes crc_byte was called with     *)
(* since.                                                                  *)

\* midi_sx_encode_char with the byte stored as it is, its top bit not cleared
midi_sx_encode_char_unmasked(e, val) ==
    LET hi  == (IF val >= 128 /\ e.hi < 128 THEN e.hi + 128 ELSE e.hi) \div 2
        m1  == Append(e.msg, val)
        cnt == e.cnt + 1
    IN  IF cnt = SX_ENCODE_LEN
        THEN [e EXCEPT !.msg = Append(m1, hi), !.hi = hi, !.cnt = 0]
        ELSE [e EXCEPT !.msg = m1, !.hi = hi, !.cnt = cnt]

\* the byte goes out with bit 7 cleared; bit 7 goes into midi_hi_bits, which
\* is written behind every 7th byte
midi_sx_encode_char(e, val) ==
    LET hi  == (IF val >= 128 /\ e.hi < 128 THEN e.hi + 128 ELSE e.hi) \div 2
        m1  == Append(e.msg, val % 128)
        cnt == e.cnt + 1
    IN  IF cnt = SX_ENCODE_LEN
        THEN [e EXCEPT !.msg = Append(m1, hi), !.hi = hi, !.cnt = 0]
        ELSE [e EXCEPT !.msg = m1, !.hi = hi, !.cnt = cnt]

midi_sx_encode_crc_char(e, val, sgn) ==
    midi_sx_encode_char([e EXCEPT !.crc = crc_byte(e.crc, val, sgn),
                                  !.fed[Len(e.fed)] = Append(@, val)], val)

midi_sx_encode_crc_int(e, val, sgn) ==
    midi_sx_encode_crc_char(
        midi_sx_encode_crc_char(e, (val \div 256) % 256, sgn), val % 256, sgn)

midi_sx_encode_int(e, val) ==
    midi_sx_encode_char(midi_sx_encode_char(e, (val \div 256) % 256), val % 256)

\* F0, the manufacturer id, the product id (MSB 0), format, 4 nulls
midi_sx_header(PID) ==
    [msg |-> <<MIDI_SX_START, kmi_id_1, kmi_id_2, kmi_id_3, 0, PID, 0, 0, 0, 0, 0>>,
     hi |-> 0, cnt |-> 0, crc |-> 0, fed |-> <<>>]

midi_sx_packet_preamble(e, packet_type, length, sgn) ==
    LET e0 == [e EXCEPT !.crc = crc_init, !.fed = Append(@, <<>>),
                        !.msg = Append(e.msg, 1), !.hi = 0, !.cnt = 0]
        e1 == midi_sx_encode_crc_int(e0, packet_type, sgn)
        e2 == midi_sx_encode_crc_int(e1, (length + TAIL_LEN) % 65536, sgn)
    IN  midi_sx_encode_int(e2, e2.crc)

\* the loop of midi_sx_data_crc over data[lo..hi], split in halves so that
\* the evaluation stays shallow; the bytes are fed in index order
RECURSIVE midi_sx_data_crc(_, _, _, _, _)
midi_sx_data_crc(e, data, lo, hi, sgn) ==
    IF lo > hi THEN e
    ELSE IF lo = hi THEN midi_sx_encode_crc_char(e, data[lo], sgn)
    ELSE LET mid  == (lo + hi) \div 2
             left == midi_sx_data_crc(e, data, lo, mid, sgn)
         IN  IF left.cnt < 0 THEN left
             ELSE midi_sx_data_crc(left, data, mid + 1, hi, sgn)

midi_sx_packet_data(e, source, sgn) ==
    midi_sx_data_crc([e EXCEPT !.crc = crc_init, !.fed = Append(@, <<>>)],
                     source, 1, Len(source), sgn)

midi_sx_packet_data_close(e, length, sgn) ==
    LET e1 == midi_sx_encode_crc_int(e, IF length # 0 THEN length + TAIL_LEN ELSE 0, sgn)
    IN  midi_sx_encode_int(e1, e1.crc)

RECURSIVE midi_sx_flush(_)
midi_sx_flush(e) ==
    IF e.cnt = 0 THEN e ELSE midi_sx_flush(midi_sx_encode_char(e, 0))

midi_sx_close(e) == [e EXCEPT !.msg = Append(e.msg, MIDI_SX_STOP)]

\* slotEncodePacket up to midi_sx_close: the encoder with the frame in msg
EncodedPacket(PID, category, type, payload, sgn) ==
    LET packet_type == category * 256 + type
        e1 == midi_sx_packet_preamble(midi_sx_header(PID), packet_type, Len(payload), sgn)
        e2 == IF Len(payload) # 0
              THEN midi_sx_packet_data_close(midi_sx_packet_data(e1, payload, sgn), 0, sgn)
              ELSE e1
    IN  midi_sx_close(midi_sx_flush(e2))

\* slotEncodePacket: the bytes handed to signalSendSysEx(&msg[0], msgIndex-1)
slotEncodePacket(PID, category, type, payload, sgn) ==
    LET e3 == EncodedPacket(PID, category, type, payload, sgn)
    IN  SubSeq(e3.msg, 1, Len(e3.msg) - 1)

\* MidiDeviceManager::slotSendSysEx: a missing F0 / F7 is added to the message
SysExFraming(message) ==
    LET m1 == IF message[1] # MIDI_SX_START THEN <<MIDI_SX_START>> \o message ELSE message
    IN  IF m1[Len(m1)] # MIDI_SX_STOP THEN Append(m1, MIDI_SX_STOP) ELSE m1

-----------------------------------------------------------------------------
(* KMI_Decode *)

\* QByteArray::indexOf: the first 0-based position of pat in ba, or -1
IndexOf(ba, pat) ==
    LET hits == {i \in 0..(Len(ba) - Len(pat)) :
                    \A k \in 1..Len(pat) : ba[i + k] = pat[k]}
    IN  IF hits = {} THEN -1 ELSE CHOOSE i \in hits : \A j \in hits : i <= j

\* sysExBA[i] on a non-const QByteArray: a read past the end gives 0
At(ba, i) == IF i < Len(ba) THEN ba[i + 1] ELSE 0

reverseBytes(value) == ((value \div 256) + (value * 256)) % 65536


\* The locals and members of slotDecodePacket after core_sx_packet_init():
\* core_sx_decode {buf, index_in, index_out}, crc, core_sx_count, the
\* PACKET_PREAMBLE union as its raw bytes, PACKET_PAYLOAD; fed lists, for
\* each crc_init(), the bytes crc_byte was called with since.
DecodeStart ==
    [buf |-> <<0, 0, 0, 0, 0, 0, 0, 0>>, index_in |-> 0, index_out |-> 0,
     crc |-> crc_init, fed |-> << <<>> >>, count |-> 0, raw |-> <<0, 0, 0, 0, 0, 0>>,
     pIndex |-> 0, pLength |-> 0, data |-> <<>>,
     crcIndex |-> 0, crcMSB |-> 0, crcLSB |-> 0, status |-> "run",
     past |-> "fault"]

\* payload.data[payload.index++] = val with payload.index >= MAX_SX_BUFFER_SIZE
\* writes beyond the array, a local of slotDecodePacket: the behaviour is
\* undefined.  The call either faults at the write, or the byte lands in the
\* memory behind the array and decoding goes on.
PastEndOutcomes == {"fault", "stored"}

\* The body of  while(midi_sx_decode_get(&val)) { ... }  for one decoded byte,
\* in its four steps.  The union members are read and written through raw[]
\* as a little-endian host lays them out: dataLength_with_preamble is
\* raw[2..3], crc is raw[4..5] (raw[3..4] and raw[5..6] here, sequences being
\* 1-based).

\* the bytes that go into the crc
DecodeCrc(d, val, sgn) ==
    IF d.count < 4 \/ (d.count >= SX_PREAMBLE_SIZE_CRC /\ d.pIndex < d.pLength)
    THEN [d EXCEPT !.crc = crc_byte(d.crc, val, sgn),
                   !.fed[Len(d.fed)] = Append(@, val)]
    ELSE d

\* store the byte: preamble, payload, or the two crc bytes after the payload
DecodeStore(d, val) ==
    IF d.count < SX_PREAMBLE_SIZE_CRC
    THEN [d EXCEPT !.raw[d.count + 1] = val, !.count = @ + 1]
    ELSE IF d.pIndex < d.pLength
    THEN IF d.pIndex >= MAX_SX_BUFFER_SIZE /\ d.past = "fault"
         THEN [d EXCEPT !.status = "write past payload.data"]
         ELSE [d EXCEPT !.data = Append(@, val), !.pIndex = @ + 1,
                        !.count = (@ + 1) % 65536]
    ELSE IF d.crcIndex = 0
    THEN [d EXCEPT !.crcMSB = val, !.crcIndex = 1]
    ELSE IF d.crcIndex = 1
    THEN [d EXCEPT !.crcLSB = val, !.crcIndex = 2]
    ELSE [d EXCEPT !.status = "payload overrun"]

\* if (core_sx_count == 4): the length word has just been received
DecodeLength(d) ==
    IF d.status = "run" /\ d.count = 4
    THEN LET len == reverseBytes(d.raw[3] + 256 * d.raw[4])
             fld == (len + SX_PREAMBLE_SIZE_CRC) % 65536
         IN  [d EXCEPT !.pLength = len,
                       !.raw[3] = fld % 256, !.raw[4] = fld \div 256]
    ELSE d

\* the preamble crc check, and the payload crc check at the end of the payload
DecodeCheck(d) ==
    IF d.status # "run" THEN d
    ELSE IF d.count = SX_PREAMBLE_SIZE_CRC
    THEN LET pcrc == reverseBytes(d.raw[5] + 256 * d.raw[6])
         IN  IF d.crc # pcrc
             THEN [d EXCEPT !.raw[5] = pcrc % 256, !.raw[6] = pcrc \div 256,
                            !.status = "preambleCRC fail"]
             ELSE [d EXCEPT !.raw[5] = pcrc % 256, !.raw[6] = pcrc \div 256,
                            !.crc = crc_init, !.fed = Append(@, <<>>)]
    ELSE IF d.crcIndex = 2
    THEN IF (d.crcMSB * 256 + d.crcLSB) % 65536 = d.crc
         THEN [d EXCEPT !.crcIndex = 3, !.status = "emit"]
         ELSE [d EXCEPT !.crcIndex = 3, !.status = "Payload CRC Fail"]
    ELSE IF d.crcIndex > 2
    THEN [d EXCEPT !.crcIndex = @ + 1]
    ELSE d

DecodedByte(d, val, sgn) ==
    DecodeCheck(DecodeLength(DecodeStore(DecodeCrc(d, val, sgn), val)))

\* while(midi_sx_decode_get(&val)) { ... }: once the 8th byte of a group is
\* in, the 7 bytes before it come out with their high bits restored
RECURSIVE midi_sx_decode_get(_, _)
midi_sx_decode_get(d, sgn) ==
    IF d.status # "run" \/ d.index_in # SX_ENCODE_LEN + 1 THEN d
    ELSE LET b   == d.buf[d.index_out + 1]
             val == IF d.buf[SX_ENCODE_LEN + 1] % 2 = 1 THEN (IF b >= 128 THEN b ELSE b + 128) ELSE b
             out == d.index_out + 1
             dg  == [d EXCEPT !.buf[SX_ENCODE_LEN + 1] = @ \div 2,
                              !.index_out = IF out = SX_ENCODE_LEN THEN 0 ELSE out,
                              !.index_in  = IF out = SX_ENCODE_LEN THEN 0 ELSE @]
         IN  midi_sx_decode_get(DecodedByte(dg, val, sgn), sgn)

midi_sx_decode_put(d, val) ==
    [d EXCEPT !.buf[d.index_in + 1] = val, !.index_in = @ + 1]

\* while(decodeIndex < length) { ... } over the 0-based positions lo..hi,
\* split in halves so that the evaluation stays shallow; a return inside
\* the loop leaves status # "run" and the remaining bytes are not looked at
RECURSIVE DecodeLoop(_, _, _, _, _)
DecodeLoop(d, ba, lo, hi, sgn) ==
    IF lo > hi \/ d.status # "run" THEN d
    ELSE IF lo = hi
    THEN midi_sx_decode_get(midi_sx_decode_put(d, At(ba, lo)), sgn)
    ELSE LET mid  == (lo + hi) \div 2
             left == DecodeLoop(d, ba, lo, mid, sgn)
         IN  IF left.status # "run" THEN left
             ELSE DecodeLoop(left, ba, mid + 1, hi, sgn)

\* the wait for the decode start (1): the first position j >= 6 at which the
\* wait ends, by the byte being 1 or by one of the two error returns
DecodeStartIndex(sysExBA) ==
    LET stops == {j \in 6..(Len(sysExBA) + 6) :
                    \/ At(sysExBA, j) = 1
                    \/ j + 1 >= Len(sysExBA)
                    \/ At(sysExBA, j + 1) = MIDI_SX_STOP}
    IN  CHOOSE j \in stops : \A k \in stops : j <= k

NoPacket(why) == [status |-> why, packets |-> <<>>, fed |-> <<>>]

\* how the decode loop ended: emit signalRxKMIPacket(msgPID, category, type,
\* &payload.data[0], payload.length), or a return without one
DecodeResult(d, msgPID) ==
    IF d.status = "emit"
    THEN [status |-> "emit",
          packets |-> << [PID |-> msgPID, category |-> d.raw[1],
                          type |-> d.raw[2], length |-> d.pLength,
                          data |-> SubSeq(d.data, 1, d.pLength)] >>,
          fed |-> d.fed]
    ELSE [NoPacket(IF d.status = "run" THEN "end of input" ELSE d.status)
             EXCEPT !.fed = d.fed]

DecodeFrom(sysExBA, j0, sgn, past) ==
    IF At(sysExBA, j0) # 1
    THEN NoPacket(IF j0 + 1 >= Len(sysExBA) THEN "no decode start"
                  ELSE "unexpected end of sysex")
    ELSE DecodeResult(DecodeLoop([DecodeStart EXCEPT !.past = past], sysExBA,
                                 j0 + 1, Len(sysExBA) - 1, sgn),
                      At(sysExBA, 5))

\* slotDecodePacket: how the call ended and the signalRxKMIPacket emissions
slotDecodePacket(sysExBA, sgn, past) ==
    IF IndexOf(sysExBA, <<kmi_id_1, kmi_id_2>>) # 1
    THEN NoPacket("not a kmi packet")
    ELSE DecodeFrom(sysExBA, DecodeStartIndex(sysExBA), sgn, past)

-----------------------------------------------------------------------------
(* The codec under test: encode a packet, possibly alter one bit of the    *)
(* frame in transit, decode the frame.                                     *)

\* payload lengths, fill patterns and header values the encoder is driven with

\* a payload length whose length word exceeds MAX_SX_BUFFER_SIZE
OversizeLen == 1030

\* frames longer than this are not altered in transit
MaxFlipFrameLen == 40

MakePayload(len, fill) == [i \in 1..len |-> (fill[1] + fill[2] * i) % 256]

FlipBitOf(ba, i, b) ==
    [ba EXCEPT ![i + 1] = IF Bit(@, b) = 1 THEN @ - Pow2(b) ELSE @ + Pow2(b)]

CodecIdle ==
    /\ encIn = [PID |-> 0, category |-> 0, type |-> 0, payload |-> <<>>]
    /\ frame = <<>>
    /\ flipped = <<>>
    /\ rxPackets = <<>>
    /\ decStatus = "none"
    /\ codecPc = "idle"

InitCodec ==
    /\ charSigned \in BOOLEAN
    /\ CodecIdle

Encode(pid, ct, len, fill) ==
    /\ codecPc = "idle"
    /\ encIn' = [PID |-> pid, category |-> ct[1], type |-> ct[2],
                 payload |-> MakePayload(len, fill)]
    /\ frame' = SysExFraming(
                    slotEncodePacket(pid, ct[1], ct[2], MakePayload(len, fill), charSigned))
    /\ codecPc' = "encoded"
    /\ UNCHANGED <<charSigned, flipped, rxPackets, decStatus, notCodecVars>>

\* a frame in the same wire format that the device sends: its payload is not
\* limited by the msg[] buffer of KMI_Encode
DeviceSends(pid, ct, len, fill) ==
    /\ codecPc = "idle"
    /\ encIn' = [PID |-> pid, category |-> ct[1], type |-> ct[2],
                 payload |-> MakePayload(len, fill)]
    /\ frame' = SysExFraming(
                    slotEncodePacket(pid, ct[1], ct[2], MakePayload(len, fill), charSigned))
    /\ codecPc' = "encoded"
    /\ UNCHANGED <<charSigned, flipped, rxPackets, decStatus, notCodecVars>>

FlipBit(i, b) ==
    /\ codecPc = "encoded"
    /\ flipped = <<>>
    /\ Len(frame) <= MaxFlipFrameLen
    /\ i < Len(frame)
    /\ frame' = FlipBitOf(frame, i, b)
    /\ flipped' = <<i, b>>
    /\ UNCHANGED <<charSigned, encIn, rxPackets, decStatus, codecPc, notCodecVars>>

Decode ==
    /\ codecPc = "encoded"
    /\ \E past \in PastEndOutcomes :
          LET r == slotDecodePacket(frame, charSigned, past)
          IN  /\ rxPackets' = r.packets
              /\ decStatus' = r.status
    /\ codecPc' = "decoded"
    /\ UNCHANGED <<charSigned, encIn, frame, flipped, notCodecVars>>

NextCodec ==
    \/ \E pid \in {25}, ct \in {<<1, 2>>, <<200, 255>>},
          len \in {0, 1, 6, 7, 8, 300}, fill \in {<<0, 0>>, <<90, 1>>, <<129, 37>>} :
          Encode(pid, ct, len, fill)
    \/ \E i \in 0..(MaxFlipFrameLen - 1), b \in 0..7 : FlipBit(i, b)
    \/ \E fill \in {<<0, 0>>, <<90, 1>>} : DeviceSends(25, <<1, 2>>, OversizeLen, fill)
    \/ Decode

-----------------------------------------------------------------------------
(* Codec properties                                                        *)

\* C1: decoding an encoded frame yields exactly one packet whose product id,
\* category, type, payload length and payload bytes equal those encoded.
C1_RoundTrip ==
    codecPc = "decoded" /\ flipped = <<>> =>
        /\ Len(rxPackets) = 1
        /\ rxPackets[1].PID = encIn.PID
        /\ rxPackets[1].category = encIn.category
        /\ rxPackets[1].type = encIn.type
        /\ rxPackets[1].length = Len(encIn.payload)
        /\ rxPackets[1].data = encIn.payload

\* C1: a frame with an empty payload has been decoded and nothing was emitted.
C1_EmptyPayloadLost ==
    /\ codecPc = "decoded"
    /\ flipped = <<>>
    /\ encIn.payload = <<>>
    /\ rxPackets = <<>>

\* number of bytes the encoder packs after the start marker: the preamble with
\* its crc, and for a non-empty payload the payload, the next length and the crc
PackedLen(len) == IF len = 0 THEN SX_PREAMBLE_SIZE_CRC ELSE SX_PREAMBLE_SIZE_CRC + len + TAIL_LEN

\* offset in the frame of the first packed byte: F0, ten header bytes, 0x01
PackedStart == 12

\* bit b of frame byte i carries a bit of packed byte number k (from 0)
CarriesPacked(i, b, k) ==
    /\ i >= PackedStart
    /\ b < SX_ENCODE_LEN
    /\ LET g == (i - PackedStart) \div (SX_ENCODE_LEN + 1)
           o == (i - PackedStart) % (SX_ENCODE_LEN + 1)
       IN  k = g * SX_ENCODE_LEN + (IF o = SX_ENCODE_LEN THEN b ELSE o)

ProtectedBit(i, b, len) == \E k \in 0..(PackedLen(len) - 1) : CarriesPacked(i, b, k)
PreambleBit(i, b) == \E k \in 0..(SX_PREAMBLE_SIZE_CRC - 1) : CarriesPacked(i, b, k)

-----------------------------------------------------------------------------
(* KMI_Ports: the port registry (KMI_ports.cpp)                            *)

PORT_CONNECT == 0
PORT_DISCONNECT == 1
PORT_CHANGED == 2
PORT_IN == 0
PORT_OUT == 1


\* KMI_DevData.h
QUNEXUS_IN_P1 == "QuNexus Control Surface"
QUNEXUS_IN_P2 == "QuNexus Expander"
QUNEXUS_IN_P3 == "QuNexus CV"
QUNEXUS_OLD_IN_P1 == "QuNexus Port 1"
QUNEXUS_OLD_IN_P2 == "QuNexus Port 2"
QUNEXUS_OLD_IN_P3 == "QuNexus Port 3"
KBOARD_IN_P1 == "K-Board"

\* An OS port is described by the device and the ordinal of the port on it.
\* Windows reports ordinal 1 as "<device> <n>" and ordinal k > 1 as
\* "MIDIIN<k> (<device>) <n>" or "MIDIOUT<k> (<device>) <n>"; MacOS reports a
\* legacy QuNexus as "QuNexus Port <k>"; Linux reports
\* "<client>:<hardcoded port name> <nn>".
OSInPorts == {[dev |-> "QuNexus", ord |-> 2], [dev |-> "QuNexus", ord |-> 3],
              [dev |-> "K-Board", ord |-> 1]}
OSOutPorts == {[dev |-> "QuNexus", ord |-> 1], [dev |-> "K-Board", ord |-> 1]}

\* the most ports an enumeration holds
MaxPorts == 2

\* the port name a device's firmware hardcodes
HardcodedName(p) ==
    IF p.dev = "QuNexus"
    THEN (IF p.ord = 1 THEN QUNEXUS_IN_P1
          ELSE IF p.ord = 2 THEN QUNEXUS_IN_P2 ELSE QUNEXUS_IN_P3)
    ELSE KBOARD_IN_P1

\* QString order of the names the registry can hold: QMap iterates by key
NameOrder == <<KBOARD_IN_P1, QUNEXUS_IN_P3, QUNEXUS_IN_P1, QUNEXUS_IN_P2,
               QUNEXUS_OLD_IN_P1, QUNEXUS_OLD_IN_P2, QUNEXUS_OLD_IN_P3>>

\* portNameFix under Q_OS_WIN for a MIDIIN<k>/MIDIOUT<k> QuNexus port; last is
\* lastMIDIIN_QuNexus or lastMIDIOUT_QuNexus
WinQuNexusAlias(thisMidiDigit, last) ==
    IF thisMidiDigit <= last \/ last = 0 THEN QUNEXUS_IN_P2 ELSE QUNEXUS_IN_P3

\* portNameFix: the name returned, and the value of the last-digit global after
portNameFix(p, last) ==
    IF os = "Q_OS_WIN"
    THEN IF p.ord > 1 /\ p.dev = "QuNexus"
         THEN [name |-> WinQuNexusAlias(p.ord, last), last |-> p.ord]
         ELSE IF p.dev = "QuNexus"
         THEN [name |-> QUNEXUS_IN_P1, last |-> last]
         ELSE [name |-> p.dev, last |-> last]
    ELSE IF os = "Q_OS_MAC"
    THEN IF p.dev = "QuNexus"
         THEN [name |-> IF p.ord = 1 THEN QUNEXUS_OLD_IN_P1
                        ELSE IF p.ord = 2 THEN QUNEXUS_OLD_IN_P2
                        ELSE QUNEXUS_OLD_IN_P3,
               last |-> last]
         ELSE [name |-> p.dev, last |-> last]
    ELSE [name |-> HardcodedName(p), last |-> last]

\* QMap
EmptyMap == [n \in {} |-> 0]
MapInsert(m, k, v) == [n \in DOMAIN m \cup {k} |-> IF n = k THEN v ELSE m[n]]
MapValue(m, k) == IF k \in DOMAIN m THEN m[k] ELSE 0
SortedKeys(keys) == SelectSeq(NameOrder, LAMBDA n : n \in keys)

\* one round of the loop that loads newInputPortMap / newOutputPortMap:
\* acc is [map, last], fixed is what portNameFix returned for port thisPort
LoadOne(acc, fixed, thisPort) ==
    [map  |-> IF fixed.name # "None" /\ fixed.name # ""
              THEN MapInsert(acc.map, fixed.name, thisPort) ELSE acc.map,
     last |-> fixed.last]

LoadMapNext(acc, enum, n) == LoadOne(acc, portNameFix(enum[n], acc.last), n - 1)

\* the fresh map of the first n ports of an enumeration, and the last-digit
\* global after the n calls of portNameFix
RECURSIVE LoadMap(_, _, _)
LoadMap(enum, n, last) ==
    IF n = 0 THEN [map |-> EmptyMap, last |-> last]
    ELSE LoadMapNext(LoadMap(enum, n - 1, last), enum, n)

PortEvent(name, dir, kind, index) ==
    [name |-> name, dir |-> dir, kind |-> kind, index |-> index]

EventsOf(names, dir, kind, m) ==
    [i \in 1..Len(names) |-> PortEvent(names[i], dir, kind, m[names[i]])]

\* DELETE pass: the retained names missing from the fresh map, with the
\* retained port number; the retained map without them
DeleteEvents(global, fresh, dir) ==
    EventsOf(SortedKeys(DOMAIN global \ DOMAIN fresh), dir, PORT_DISCONNECT, global)

AfterDelete(global, fresh) == [n \in DOMAIN global \cap DOMAIN fresh |-> global[n]]

\* FIND pass: the fresh names missing from the retained map, with the fresh
\* port number; the retained map with them
FindEvents(global, fresh, dir) ==
    EventsOf(SortedKeys(DOMAIN fresh \ DOMAIN global), dir, PORT_CONNECT, fresh)

AfterFind(global, fresh) ==
    [n \in DOMAIN global \cup DOMAIN fresh |->
        IF n \in DOMAIN global THEN global[n] ELSE fresh[n]]

\* a changed pass that leaves the stored port numbers as they were
AfterChanged_stale(global, fresh) == global

\* FIND CHANGED pass: the retained names whose port number differs from
\* newPortMap.value(name), with the new number; the retained map updated
AfterChanged(global, fresh) == [n \in DOMAIN global |-> MapValue(fresh, n)]

ChangedEvents(global, fresh, dir) ==
    EventsOf(SortedKeys({n \in DOMAIN global : MapValue(fresh, n) # global[n]}),
             dir, PORT_CHANGED, AfterChanged(global, fresh))

\* the retained map as the three passes leave it
AfterScan(global, fresh) ==
    AfterChanged(AfterFind(AfterDelete(global, fresh), fresh), fresh)

\* the emissions with the three passes run for the inputs, then for the outputs
ScanEvents_byDirection(gIn, gOut, fIn, fOut) ==
    DeleteEvents(gIn, fIn, PORT_IN)
    \o FindEvents(AfterDelete(gIn, fIn), fIn, PORT_IN)
    \o ChangedEvents(AfterFind(AfterDelete(gIn, fIn), fIn), fIn, PORT_IN)
    \o DeleteEvents(gOut, fOut, PORT_OUT)
    \o FindEvents(AfterDelete(gOut, fOut), fOut, PORT_OUT)
    \o ChangedEvents(AfterFind(AfterDelete(gOut, fOut), fOut), fOut, PORT_OUT)

\* the signalPortUpdated emissions of checkPortsForChanges in the order of the
\* passes: delete inputs, delete outputs, find inputs, find outputs, changed
\* inputs, changed outputs
ScanEvents(gIn, gOut, fIn, fOut) ==
    DeleteEvents(gIn, fIn, PORT_IN) \o DeleteEvents(gOut, fOut, PORT_OUT)
    \o FindEvents(AfterDelete(gIn, fIn), fIn, PORT_IN)
    \o FindEvents(AfterDelete(gOut, fOut), fOut, PORT_OUT)
    \o ChangedEvents(AfterFind(AfterDelete(gIn, fIn), fIn), fIn, PORT_IN)
    \o ChangedEvents(AfterFind(AfterDelete(gOut, fOut), fOut), fOut, PORT_OUT)

\* enumerations: up to MaxPorts of the given OS ports, no port twice
Enumerations(ports) ==
    {e \in UNION {[1..n -> ports] : n \in 0..MaxPorts} :
        \A i, j \in 1..Len(e) : i # j => e[i] # e[j]}

NoScan == [scans |-> 0, repeat |-> FALSE, gIn |-> EmptyMap, gOut |-> EmptyMap,
           fIn |-> EmptyMap, fOut |-> EmptyMap]

\* no scan to describe
ScanIdle ==
    /\ portEvents = <<>>
    /\ returnValue = 0
    /\ portHist = NoScan

InitPorts ==
    /\ os \in {"Q_OS_WIN", "Q_OS_MAC", "Q_OS_LINUX"}
    /\ osIn = <<>>
    /\ osOut = <<>>
    /\ midiInputPorts = EmptyMap
    /\ midiOutputPorts = EmptyMap
    /\ lastMIDIIN_QuNexus = 0
    /\ lastMIDIOUT_QuNexus = 0
    /\ ScanIdle

\* portEvents, returnValue and portHist describe the last call of
\* checkPortsForChanges while no other step has been taken since
ScanForgotten ==
    /\ portEvents' = <<>>
    /\ returnValue' = 0
    /\ portHist' = NoScan

\* the environment: devices are plugged, unplugged, re-enumerated
ReplugIn(ins) ==
    /\ ins # osIn
    /\ osIn' = ins
    /\ ScanForgotten
    /\ UNCHANGED <<os, osOut, midiInputPorts, midiOutputPorts, lastMIDIIN_QuNexus,
                   lastMIDIOUT_QuNexus, notPortVars>>

ReplugOut(outs) ==
    /\ outs # osOut
    /\ osOut' = outs
    /\ ScanForgotten
    /\ UNCHANGED <<os, osIn, midiInputPorts, midiOutputPorts, lastMIDIIN_QuNexus,
                   lastMIDIOUT_QuNexus, notPortVars>>

\* checkPortsForChanges with the fresh maps computed; portHist records what
\* the call started from, and whether the call before it was a scan of the
\* same enumeration
ScanWith(fIn, fOut) ==
    /\ portEvents' = ScanEvents(midiInputPorts, midiOutputPorts, fIn.map, fOut.map)
    /\ returnValue' = Len(ScanEvents(midiInputPorts, midiOutputPorts, fIn.map, fOut.map))
    /\ midiInputPorts' = AfterScan(midiInputPorts, fIn.map)
    /\ midiOutputPorts' = AfterScan(midiOutputPorts, fOut.map)
    /\ lastMIDIIN_QuNexus' = fIn.last
    /\ lastMIDIOUT_QuNexus' = fOut.last
    /\ portHist' = [scans |-> IF portHist.scans = 0 THEN 1 ELSE 2,
                    repeat |-> portHist.scans > 0,
                    gIn |-> midiInputPorts, gOut |-> midiOutputPorts,
                    fIn |-> fIn.map, fOut |-> fOut.map]
    /\ UNCHANGED <<os, osIn, osOut, notPortVars>>

checkPortsForChanges ==
    ScanWith(LoadMap(osIn, Len(osIn), lastMIDIIN_QuNexus),
             LoadMap(osOut, Len(osOut), lastMIDIOUT_QuNexus))

\* force a refresh by clearing the port maps
slotRefreshPortMaps ==
    /\ midiInputPorts' = EmptyMap
    /\ midiOutputPorts' = EmptyMap
    /\ ScanForgotten
    /\ UNCHANGED <<os, osIn, osOut, lastMIDIIN_QuNexus, lastMIDIOUT_QuNexus, notPortVars>>

NextPorts ==
    \/ \E ins \in Enumerations(OSInPorts) : ReplugIn(ins)
    \/ \E outs \in Enumerations(OSOutPorts) : ReplugOut(outs)
    \/ checkPortsForChanges
    \/ slotRefreshPortMaps

-----------------------------------------------------------------------------
(* Port registry properties                                                *)

\* C3: a call of checkPortsForChanges that directly follows a call with the
\* same OS enumeration emits no event, returns 0 and leaves both maps as
\* they were.
C3_RepeatedScanQuiet ==
    portHist.repeat =>
        /\ portEvents = <<>>
        /\ returnValue = 0
        /\ midiInputPorts = portHist.gIn
        /\ midiOutputPorts = portHist.gOut

\* C3: the second of two scans of one enumeration reported a connect.
C3_RepeatedScanConnects ==
    /\ portHist.repeat
    /\ returnValue = 1
    /\ \E i \in 1..Len(portEvents) : portEvents[i].kind = PORT_CONNECT

\* C4: a name in both the retained and the fresh map gets no disconnect and no
\* connect; it gets exactly one renumber, carrying the new port number, when
\* its port number changed, and none otherwise; the stored number is the new
\* one.  Retained {A:0, B:1} against fresh {B:0} gives disconnect(A),
\* renumber(B, 0) and no connect.
C4_SurvivorsRenumbered ==
    LET EventsAbout(n, dir) ==
            SelectSeq(portEvents, LAMBDA e : e.name = n /\ e.dir = dir)
        SurvivorEvents(n, dir, g, f) ==
            IF g[n] = f[n] THEN <<>> ELSE <<PortEvent(n, dir, PORT_CHANGED, f[n])>>
    IN
    portHist.scans > 0 =>
        /\ \A n \in DOMAIN portHist.gIn \cap DOMAIN portHist.fIn :
              /\ EventsAbout(n, PORT_IN) = SurvivorEvents(n, PORT_IN, portHist.gIn, portHist.fIn)
              /\ midiInputPorts[n] = portHist.fIn[n]
        /\ \A n \in DOMAIN portHist.gOut \cap DOMAIN portHist.fOut :
              /\ EventsAbout(n, PORT_OUT) = SurvivorEvents(n, PORT_OUT, portHist.gOut, portHist.fOut)
              /\ midiOutputPorts[n] = portHist.fOut[n]
        /\ \A a, b \in DOMAIN portHist.gIn :
              (/\ portHist.gIn = MapInsert(MapInsert(EmptyMap, a, 0), b, 1)
               /\ a # b
               /\ portHist.fIn = MapInsert(EmptyMap, b, 0)
               /\ portHist.gOut = portHist.fOut)
              => portEvents = <<PortEvent(a, PORT_IN, PORT_DISCONNECT, 0),
                                PortEvent(b, PORT_IN, PORT_CHANGED, 0)>>

\* C4: retained {K-Board:0, QuNexus Expander:1} was scanned against fresh
\* {QuNexus Expander:0}.
C4_DropAndRenumberSeen ==
    /\ portHist.scans > 0
    /\ portHist.gIn = MapInsert(MapInsert(EmptyMap, KBOARD_IN_P1, 0), QUNEXUS_IN_P2, 1)
    /\ portHist.fIn = MapInsert(EmptyMap, QUNEXUS_IN_P2, 0)
    /\ portEvents = <<PortEvent(KBOARD_IN_P1, PORT_IN, PORT_DISCONNECT, 0),
                      PortEvent(QUNEXUS_IN_P2, PORT_IN, PORT_CHANGED, 0)>>
    /\ midiInputPorts = MapInsert(EmptyMap, QUNEXUS_IN_P2, 0)

\* C5: within one scan every disconnect is emitted before every connect, and
\* every connect before every renumber.
C5_PassOrder ==
    LET PassOf(kind) ==
            IF kind = PORT_DISCONNECT THEN 1 ELSE IF kind = PORT_CONNECT THEN 2 ELSE 3
    IN  \A i, j \in 1..Len(portEvents) :
            i < j => PassOf(portEvents[i].kind) <= PassOf(portEvents[j].kind)

\* C5: one scan emitted a disconnect, a connect and a renumber for inputs,
\* and a disconnect and a renumber for outputs.
C5_AllKindsSeen ==
    LET Emitted(dir, kind) ==
            \E i \in 1..Len(portEvents) :
                portEvents[i].dir = dir /\ portEvents[i].kind = kind
    IN  /\ Emitted(PORT_IN, PORT_DISCONNECT)
        /\ Emitted(PORT_IN, PORT_CONNECT)
        /\ Emitted(PORT_IN, PORT_CHANGED)
        /\ Emitted(PORT_OUT, PORT_DISCONNECT)
        /\ Emitted(PORT_OUT, PORT_CHANGED)

-----------------------------------------------------------------------------
(* Device session: MidiDeviceManager (src/KMI_mdm.cpp)                     *)
(*                                                                         *)
(* A handler is an operator from the object before the call to the object  *)
(* after it.  During a call the record also carries what the call has      *)
(* emitted and transmitted so far:                                         *)
(*   emitted  the Qt signals emitted, in order                             *)
(*   sent     the messages handed to midi_out->sendMessage, in order       *)
(*   queued   the messages appended to the packet, in order                *)
(*   refresh  whether kmiPorts->slotRefreshPortMaps() was called           *)
(*   tooSoon  whether syxExTxChunkTimer reads less than sysExTxChunkDelay  *)
(*   ret      the value the last bool handler returned                     *)
(*   handed   the parsers midiInCallback has handed its message to         *)
(*   rx       the message midiInCallback was called with                   *)
(*   returned whether slotPollVersion returned from inside its switch      *)
(* Times are in milliseconds.  signalFwConsoleMessage lines and debug      *)
(* output are not part of the model.                                       *)
(*                                                                         *)
(* midi_in and midi_out stand for the RtMidi handles: the OS port the      *)
(* handle holds a connection to, or NoPort.  RtMidi's openPort on a        *)
(* handle that holds a connection warns and leaves it as it is; on a free  *)
(* handle it connects to a port of the enumeration and raises an error for *)
(* any other number.  RtMidi raises no error on sendMessage and closePort. *)
(*                                                                         *)
(* The session is one for a QuNexus.  What the code does for the SoftStep  *)
(* and 12 Step products only is left out: their legacy version requests   *)
(* and replies, and the installation of a bootloader, so that              *)
(* installingBootloader, which is BL_INSTALL_FALSE for every other         *)
(* product, is no field of the record.                                     *)

\* enum FWUD_STATE
FWUD_STATE_IDLE == 0
FWUD_STATE_BEGIN == 1
FWUD_STATE_GLOBALS_REQ_SEND == 2
FWUD_STATE_GLOBALS_REQ_SENT_WAIT == 3
FWUD_STATE_GLOBALS_RCVD == 4
FWUD_STATE_BL_SEND == 5
FWUD_STATE_BL_SENT_WAIT == 6
FWUD_STATE_BL_MODE == 7
FWUD_STATE_FW_SEND == 8
FWUD_STATE_FW_SENT_WAIT == 9
FWUD_STATE_GLOBALS_SEND == 10
FWUD_STATE_SUCCESS == 11
FWUD_STATE_FAIL == 12

SIGNAL_NONE == FALSE
SIGNAL_SEND == TRUE

PID_AUX == 0
PID_QUNEXUS == 25

\* lookupPID, for the products of the model
lookupPID(thisPID) ==
    IF thisPID = PID_QUNEXUS THEN "QuNexus"
    ELSE IF thisPID = PID_AUX THEN "AUX"
    ELSE ""

\* midi.h
NUM_MIDI_CHANNELS == 16
MIDI_NOTE_OFF == 128
MIDI_NOTE_ON == 144
MIDI_NOTE_AFTERTOUCH == 160
MIDI_CONTROL_CHANGE == 176
MIDI_PROG_CHANGE == 192
MIDI_CHANNEL_PRESSURE == 208
MIDI_PITCH_BEND == 224
MIDI_MTC == 241
MIDI_SONG_POSITION == 242
MIDI_SONG_SELECT == 243
MIDI_TUNE_REQUEST == 246
MIDI_RT_CLOCK == 248
MIDI_RT_START == 250
MIDI_RT_CONTINUE == 251
MIDI_RT_STOP == 252
MIDI_RT_ACTIVE_SENSE == 254
MIDI_RT_RESET == 255
MIDI_CC_DATA_MSB == 6
MIDI_CC_DATA_LSB == 38
MIDI_CC_DATA_INC == 96
MIDI_CC_DATA_DEC == 97
MIDI_CC_NRPN_LSB == 98
MIDI_CC_NRPN_MSB == 99
MIDI_CC_RPN_LSB == 100
MIDI_CC_RPN_MSB == 101

\* enum PARAM_MODE
MODE_UNDEF == 0
MODE_RPN == 1
MODE_NRPN == 2

FW_UPDATE_TIMEOUT_INTERVAL == 35000
sysExTxChunkSize == 48
MAX_MIDI_SYSEX_SIZE == 200

\* the interval of versionPoller
PollInterval == 1000

\* a QElapsedTimer is read up to these values; more reads the same to the code
MaxElapsed == 36000
MaxVerElapsed == 5500

\* an RtMidi handle without a connection
NoPort == [dev |-> "", ord |-> 0]

\* SysEx messages of KMI_SysexMessages.h
_sx_id_req_standard == <<240, 126, 127, 6, 1, 247>>
_sx_id_reply_standard == <<240, 126, 127, 6, 2>>
_sx_ack_loop_test == <<240, 0, 1, 95, 127, 247>>
_bl_qunexus == <<240, 0, 1, 95, 25, 0, 0, 0, 0, 0, 0, 0, 0, 0, 0, 17, 247>>

\* the firmware the application was built for
applicationFirmwareVersion == <<1, 0, 1>>

\* the firmware image file: one SysEx of FwImageLen data bytes
FwImageLen == 60
FirmwareImage == <<MIDI_SX_START>> \o [i \in 1..FwImageLen |-> i % 128] \o <<MIDI_SX_STOP>>

\* LAST_SENT_NRPN[] has no initializer and the constructor does not write it:
\* until slotInitNRPN has run an element holds no value, and what a read of it
\* gives is not determined
Indeterminate == -1

\* MidiDeviceManager::MidiDeviceManager, for a QuNexus session
Constructed ==
    [PID |-> PID_QUNEXUS,
     deviceName |-> "QuNexus",
     port_in |-> -1,
     port_out |-> -1,
     port_in_open |-> FALSE,
     port_out_open |-> FALSE,
     midi_in |-> NoPort,
     midi_out |-> NoPort,
     portName_in |-> "",
     portName_out |-> "",
     connected |-> FALSE,
     ioGate |-> TRUE,
     fwSaveRestoreGlobals |-> FALSE,
     bootloaderMode |-> FALSE,
     pollingStatus |-> FALSE,
     firmwareUpdateState |-> FWUD_STATE_IDLE,
     firmwareUpdateStateTimer |-> 0,
     fwVerPollSkipConnectCycles |-> 0,
     firstFwVerRequestHasBeenSent |-> FALSE,
     fwVerRequestTimer |-> 0,
     deviceFirmwareVersion |-> <<0, 0, 0>>,
     firmwareByteArray |-> <<>>,
     packet |-> <<>>,
     sendLastChunk |-> FALSE,
     status |-> 0,
     chan |-> 0,
     paramMode |-> MODE_UNDEF,
     RPN_MSB |-> [i \in 0..(NUM_MIDI_CHANNELS - 1) |-> 0],
     RPN_LSB |-> [i \in 0..(NUM_MIDI_CHANNELS - 1) |-> 0],
     NRPN_MSB |-> [i \in 0..(NUM_MIDI_CHANNELS - 1) |-> 0],
     NRPN_LSB |-> [i \in 0..(NUM_MIDI_CHANNELS - 1) |-> 0],
     RPN_DATA_MSB |-> [i \in 0..(NUM_MIDI_CHANNELS - 1) |-> 0],
     RPN_DATA_LSB |-> [i \in 0..(NUM_MIDI_CHANNELS - 1) |-> 0],
     NRPN_DATA_MSB |-> [i \in 0..(NUM_MIDI_CHANNELS - 1) |-> 0],
     NRPN_DATA_LSB |-> [i \in 0..(NUM_MIDI_CHANNELS - 1) |-> 0],
     LAST_SENT_NRPN |-> [i \in 0..(NUM_MIDI_CHANNELS - 1) |-> Indeterminate]]

\* the object at the start of a handler call
Call(m, tooSoon) ==
    m @@ [emitted |-> <<>>, sent |-> <<>>, refresh |-> FALSE, tooSoon |-> tooSoon,
          returned |-> FALSE,
          ret |-> TRUE,
          handed |-> <<>>,
          rx |-> <<>>,
          queued |-> <<>>]

\* the object when the call has returned
Fields(s) == [f \in DOMAIN Constructed |-> s[f]]

Emit(s, signal) == [s EXCEPT !.emitted = Append(@, signal)]

-----------------------------------------------------------------------------
(* The outgoing buffer *)

\* the chunk branch without the padding of a short last chunk
SendChunk_unpadded(s) ==
    LET sizeToSend == IF s.sendLastChunk THEN Len(s.packet) ELSE sysExTxChunkSize
        AfterChunk(r) ==
            IF s.sendLastChunk THEN [r EXCEPT !.sendLastChunk = FALSE, !.packet = <<>>]
            ELSE IF Len(r.packet) < sysExTxChunkSize THEN [r EXCEPT !.sendLastChunk = TRUE]
            ELSE r
    IN  IF s.tooSoon THEN s
        ELSE AfterChunk([s EXCEPT
                            !.sent = Append(@, SubSeq(s.packet, 1, sizeToSend)),
                            !.packet = SubSeq(@, sizeToSend + 1, Len(@)),
                            !.tooSoon = TRUE])

\* the branch for a large SysEx: a chunk that is shorter than 6 bytes and
\* ends the SysEx is padded with 10 zeros; after packet.erase the last chunk
\* ends the transfer, and one chunk left is announced for the next call; the
\* chunk timer restarts with each chunk
SendChunk(s) ==
    LET sizeToSend == IF s.sendLastChunk THEN Len(s.packet) ELSE sysExTxChunkSize
        PaddedChunk(chunkToSend) ==
            IF Len(chunkToSend) < 6 /\ chunkToSend # <<>>
               /\ chunkToSend[Len(chunkToSend)] = MIDI_SX_STOP
            THEN SubSeq(chunkToSend, 1, Len(chunkToSend) - 1) \o [i \in 1..10 |-> 0]
                 \o <<MIDI_SX_STOP>>
            ELSE chunkToSend
        AfterChunk(r) ==
            IF s.sendLastChunk THEN [r EXCEPT !.sendLastChunk = FALSE, !.packet = <<>>]
            ELSE IF Len(r.packet) < sysExTxChunkSize THEN [r EXCEPT !.sendLastChunk = TRUE]
            ELSE r
    IN  IF s.tooSoon THEN s
        ELSE AfterChunk([s EXCEPT
                            !.sent = Append(@, PaddedChunk(SubSeq(s.packet, 1, sizeToSend))),
                            !.packet = SubSeq(@, sizeToSend + 1, Len(@)),
                            !.tooSoon = TRUE])

\* the small branch from index i on (indices from 0): message is the channel
\* message being collected, out what has been handed to the transport.  A
\* small SysEx that starts at i stops at the next byte above 127 or at the
\* end of the packet; the loop goes on behind an 0xF7, or at the byte that
\* stopped it
SmallSysExStop(p, i) ==
    CHOOSE k \in (i + 1)..Len(p) :
        /\ k = Len(p) \/ p[k + 1] > 127
        /\ \A j \in (i + 1)..(k - 1) : p[j + 1] <= 127

\* one pass of the for loop at index st.i
SmallIteration(p, st) ==
    LET i == st.i
        k == SmallSysExStop(p, i)
        flushed == p[i + 1] >= 128 /\ st.message # <<>>
        msg == Append(IF flushed THEN <<>> ELSE st.message, p[i + 1])
        o == IF flushed THEN Append(st.out, st.message) ELSE st.out
    IN  IF p[i + 1] = MIDI_SX_START
        THEN [st EXCEPT !.i = IF k >= Len(p) \/ p[k + 1] = MIDI_SX_STOP THEN k + 1 ELSE k,
                        !.out = Append(@, SubSeq(p, i + 1, k) \o <<MIDI_SX_STOP>>)]
        ELSE [i |-> i + 1, message |-> msg,
              out |-> IF i = Len(p) - 1 THEN Append(o, msg) ELSE o]

\* the passes of the for loop at the indices lo..hi, split in halves so that
\* the evaluation stays shallow; an index inside a small SysEx has no pass
RECURSIVE SmallLoop(_, _, _, _)
SmallLoop(p, st, lo, hi) ==
    IF lo > hi THEN st
    ELSE IF lo = hi THEN (IF st.i = lo THEN SmallIteration(p, st) ELSE st)
    ELSE LET mid  == (lo + hi) \div 2
             left == SmallLoop(p, st, lo, mid)
         IN  IF left.i > hi THEN left
             ELSE SmallLoop(p, left, mid + 1, hi)

SendSmall(p, i, message, out) ==
    SmallLoop(p, [i |-> i, message |-> message, out |-> out], i, Len(p) - 1).out

slotEmptyMIDIBuffer(s) ==
    IF s.packet = <<>> THEN s
    ELSE IF Len(s.packet) > MAX_MIDI_SYSEX_SIZE THEN [s EXCEPT !.packet = <<>>]
    ELSE IF Len(s.packet) > sysExTxChunkSize \/ s.sendLastChunk THEN SendChunk(s)
    ELSE [s EXCEPT !.sent = @ \o SendSmall(s.packet, 0, <<>>, <<>>), !.packet = <<>>]

\* the message goes into the packet with 0xF0 and 0xF7 added where they are
\* missing, and a packet below the chunk size is sent at once
slotSendSysEx(s, sysEx) ==
    LET message ==
            (IF sysEx[1] # MIDI_SX_START THEN <<MIDI_SX_START>> ELSE <<>>)
            \o sysEx
            \o (IF sysEx[Len(sysEx)] # MIDI_SX_STOP THEN <<MIDI_SX_STOP>> ELSE <<>>)
        SysExQueued(r) ==
            [(IF Len(r.packet) < sysExTxChunkSize THEN slotEmptyMIDIBuffer(r) ELSE r)
                EXCEPT !.ioGate = TRUE]
    IN  IF s.port_out_open = FALSE THEN [s EXCEPT !.ioGate = FALSE]
        ELSE SysExQueued([s EXCEPT !.packet = @ \o message,
                                   !.queued = Append(@, message)])

-----------------------------------------------------------------------------
(* The session's ports *)

\* KMI_Ports::getInPortNumber / getOutPortNumber over an enumeration: the
\* first port whose fixed name is thisPortName, or -1
RECURSIVE PortNumberFrom(_, _, _, _)
PortNumberFrom(enum, i, last, thisPortName) ==
    LET PortNumberNext(fixed) ==
            IF fixed.name = thisPortName THEN i
            ELSE PortNumberFrom(enum, i + 1, fixed.last, thisPortName)
    IN  IF i >= Len(enum) THEN -1
        ELSE PortNumberNext(portNameFix(enum[i + 1], last))

getInPortNumber(thisPortName) == PortNumberFrom(osIn, 0, lastMIDIIN_QuNexus, thisPortName)

getOutPortNumber(thisPortName) == PortNumberFrom(osOut, 0, lastMIDIOUT_QuNexus, thisPortName)

\* KMI_Ports::getInPortName / getOutPortName; RtMidi names a port number
\* that is not enumerated ""
PortName(enum, thisPort, last) ==
    IF thisPort # -1 /\ thisPort <= Len(enum)
    THEN IF thisPort < Len(enum) THEN portNameFix(enum[thisPort + 1], last).name
         ELSE ""
    ELSE "None"

getInPortName(thisPort) == PortName(osIn, thisPort, lastMIDIIN_QuNexus)

getOutPortName(thisPort) == PortName(osOut, thisPort, lastMIDIOUT_QuNexus)

\* aux ports don't need firmware to match for connect
AuxConnected(s) ==
    IF s.PID = PID_AUX /\ ~s.connected
    THEN Emit([s EXCEPT !.connected = TRUE], <<"signalConnected", TRUE>>)
    ELSE s

\* if (connected) { connected = false; if (signal == SIGNAL_SEND) emit ... }
Disconnected(s, signal) ==
    IF s.connected
    THEN IF signal = SIGNAL_SEND
         THEN Emit([s EXCEPT !.connected = FALSE], <<"signalConnected", FALSE>>)
         ELSE [s EXCEPT !.connected = FALSE]
    ELSE s

slotCloseMidiIn(s, signal) ==
    [Disconnected([s EXCEPT !.port_in_open = FALSE, !.portName_in = ""], signal)
        EXCEPT !.midi_in = NoPort, !.ret = TRUE]

\* the buffer is emptied first.  Under Q_OS_WINDOWS it is midi_in that is
\* deleted and renewed; elsewhere midi_out is renewed when bootloaderMode
\* was set, and that ends bootloaderMode
slotCloseMidiOut(s, signal) ==
    LET OutClosed(r) ==
            [Disconnected([r EXCEPT !.port_out_open = FALSE, !.portName_out = ""], signal)
                EXCEPT !.midi_out = NoPort,
                       !.midi_in = IF os = "Q_OS_WIN" THEN NoPort ELSE @,
                       !.bootloaderMode = IF os # "Q_OS_WIN" THEN FALSE ELSE @,
                       !.ret = TRUE]
    IN  OutClosed(slotEmptyMIDIBuffer(s))

slotInitNRPN(s) ==
    [s EXCEPT !.RPN_MSB = [i \in 0..(NUM_MIDI_CHANNELS - 1) |-> 255],
              !.RPN_LSB = [i \in 0..(NUM_MIDI_CHANNELS - 1) |-> 255],
              !.NRPN_MSB = [i \in 0..(NUM_MIDI_CHANNELS - 1) |-> 255],
              !.NRPN_LSB = [i \in 0..(NUM_MIDI_CHANNELS - 1) |-> 255],
              !.RPN_DATA_MSB = [i \in 0..(NUM_MIDI_CHANNELS - 1) |-> 0],
              !.RPN_DATA_LSB = [i \in 0..(NUM_MIDI_CHANNELS - 1) |-> 0],
              !.NRPN_DATA_MSB = [i \in 0..(NUM_MIDI_CHANNELS - 1) |-> 0],
              !.LAST_SENT_NRPN = [i \in 0..(NUM_MIDI_CHANNELS - 1) |-> 16384]]

\* the input port is closed first when port_out_open is set
slotOpenMidiIn(s) ==
    LET InOpened(r) ==
            IF r.midi_in = NoPort /\ ~(r.port_in >= 0 /\ r.port_in < Len(osIn))
            THEN [r EXCEPT !.port_in_open = FALSE, !.portName_in = "",
                           !.connected = FALSE, !.bootloaderMode = FALSE, !.ret = FALSE]
            ELSE [AuxConnected([r EXCEPT !.midi_in = IF @ = NoPort THEN osIn[r.port_in + 1] ELSE @,
                                         !.portName_in = getInPortName(r.port_in),
                                         !.port_in_open = TRUE])
                    EXCEPT !.ret = TRUE]
    IN  IF s.port_in = -1 THEN [s EXCEPT !.ret = FALSE]
        ELSE InOpened(IF s.port_out_open THEN slotCloseMidiIn(s, SIGNAL_NONE) ELSE s)

\* the output port is closed first when port_out_open is set
slotOpenMidiOut(s) ==
    LET OutOpened(r) ==
            IF r.midi_out = NoPort /\ ~(r.port_out >= 0 /\ r.port_out < Len(osOut))
            THEN [r EXCEPT !.port_out_open = FALSE, !.portName_in = "",
                           !.connected = FALSE, !.bootloaderMode = FALSE, !.ret = FALSE]
            ELSE [AuxConnected(slotInitNRPN(
                      [r EXCEPT !.midi_out = IF @ = NoPort THEN osOut[r.port_out + 1] ELSE @,
                                !.portName_out = getOutPortName(r.port_out),
                                !.port_out_open = TRUE]))
                    EXCEPT !.ret = TRUE]
    IN  IF s.port_out = -1 THEN [s EXCEPT !.ret = FALSE]
        ELSE OutOpened(IF s.port_out_open THEN slotCloseMidiOut(s, SIGNAL_NONE) ELSE s)

\* close the port if we failed, and kick the registry
slotUpdatePortIn(s, port) ==
    LET PortInUpdated(r) ==
            IF r.ret THEN r
            ELSE [slotCloseMidiIn(r, SIGNAL_SEND) EXCEPT !.refresh = TRUE, !.ret = FALSE]
    IN  PortInUpdated(slotOpenMidiIn([s EXCEPT !.port_in = port]))

slotUpdatePortOut(s, port) ==
    LET PortOutUpdated(r) ==
            IF r.ret THEN r
            ELSE [slotCloseMidiOut(r, SIGNAL_SEND) EXCEPT !.refresh = TRUE, !.ret = FALSE]
    IN  PortOutUpdated(slotOpenMidiOut([s EXCEPT !.port_out = port]))

slotUpdatePID(s, thisPID) == [s EXCEPT !.PID = thisPID, !.deviceName = lookupPID(thisPID)]

-----------------------------------------------------------------------------
(* slotPollVersion *)

\* dt passes.  While the state machine is idle the reading of
\* firmwareUpdateStateTimer is not followed: the session rests there for any
\* length of time, and the timer is restarted before the code next acts on a
\* reading of it
Elapse(s, dt) ==
    [s EXCEPT !.firmwareUpdateStateTimer =
                  IF s.firmwareUpdateState = FWUD_STATE_IDLE THEN MaxElapsed
                  ELSE Min(@ + dt, MaxElapsed),
              !.fwVerRequestTimer = Min(@ + dt, MaxVerElapsed)]

portsAreSetUp(s) ==
    ~(s.port_in = -1 \/ s.port_out = -1 \/ ~s.port_in_open \/ ~s.port_out_open)

\* round() of a C++ integer division, which is towards zero
remainingSeconds(s) ==
    LET TruncDiv(a, b) == IF a >= 0 THEN a \div b ELSE -((-a) \div b)
    IN  TruncDiv(FW_UPDATE_TIMEOUT_INTERVAL - s.firmwareUpdateStateTimer, 1000)

Restart(s) == [s EXCEPT !.firmwareUpdateStateTimer = 0]

To(s, state) == [s EXCEPT !.firmwareUpdateState = state]

slotFirmwareUpdateReset(s) == [s EXCEPT !.pollingStatus = FALSE]

\* BEGIN that looks at the bootloader only
CaseBegin_noGlobals(s) ==
    Restart([s EXCEPT !.firmwareUpdateState =
                          IF s.bootloaderMode THEN FWUD_STATE_BL_MODE
                          ELSE FWUD_STATE_BL_SEND,
                      !.fwVerPollSkipConnectCycles = 0])

CaseBegin(s) ==
    Restart([s EXCEPT !.firmwareUpdateState =
                          IF s.bootloaderMode THEN FWUD_STATE_BL_MODE
                          ELSE IF s.fwSaveRestoreGlobals THEN FWUD_STATE_GLOBALS_REQ_SEND
                          ELSE FWUD_STATE_BL_SEND,
                      !.fwVerPollSkipConnectCycles = 0])

CaseGlobalsReqSentWait(s, remaining) ==
    IF remaining = 25 THEN Emit(s, <<"signalRequestGlobals">>)
    ELSE IF remaining < 15 THEN To(s, FWUD_STATE_BL_SEND)
    ELSE s

\* switch (PID): the command that makes a QuNexus enter its bootloader
CaseBlSend(s) ==
    Restart(To(Emit(IF s.PID = PID_QUNEXUS THEN slotSendSysEx(s, _bl_qunexus) ELSE s,
                    <<"signalFwProgress", 30>>),
               FWUD_STATE_BL_SENT_WAIT))

\* a wait that never runs out
TimedOut_never(s) == s

TimedOut(s) ==
    IF s.firmwareUpdateStateTimer > FW_UPDATE_TIMEOUT_INTERVAL
    THEN To(s, FWUD_STATE_FAIL) ELSE s

\* a wait that asks again on every tick
CaseSentWait_everyTick(s, remaining) ==
    TimedOut(slotSendSysEx(s, _sx_id_req_standard))

\* BL_SENT_WAIT and FW_SENT_WAIT
CaseSentWait(s, remaining) ==
    TimedOut(IF remaining \in {22, 12, 5}
             THEN slotSendSysEx(s, _sx_id_req_standard) ELSE s)

CaseBlMode(s) ==
    [Emit(s, <<"signalFwProgress", 40>>)
        EXCEPT !.firmwareUpdateState = FWUD_STATE_FW_SEND,
               !.fwVerPollSkipConnectCycles = 0]

\* the port test sets FAIL and goes on; without a firmware file the handler
\* returns
CaseFwSend(s) ==
    LET FwSendFile(r) ==
            IF Len(r.firmwareByteArray) < 1
            THEN [Restart(To(r, FWUD_STATE_FAIL)) EXCEPT !.returned = TRUE]
            ELSE Restart(To(slotSendSysEx(r, r.firmwareByteArray), FWUD_STATE_FW_SENT_WAIT))
    IN  FwSendFile(Emit(IF s.port_out_open = FALSE THEN To(s, FWUD_STATE_FAIL) ELSE s,
                        <<"signalFwProgress", 50>>))

CaseSuccess(s) ==
    [Emit(s, <<"signalFirmwareUpdateComplete", TRUE>>)
        EXCEPT !.firmwareUpdateState = FWUD_STATE_IDLE,
               !.fwVerPollSkipConnectCycles = 0,
               !.connected = TRUE]

CaseFail(s) ==
    [Emit([slotFirmwareUpdateReset(s) EXCEPT !.connected = FALSE],
          <<"signalFirmwareUpdateComplete", FALSE>>)
        EXCEPT !.firmwareUpdateState = FWUD_STATE_IDLE,
               !.fwVerPollSkipConnectCycles = 0]

\* switch (firmwareUpdateState)
StateSwitch(s, remaining) ==
    CASE s.firmwareUpdateState = FWUD_STATE_IDLE -> s
      [] s.firmwareUpdateState = FWUD_STATE_BEGIN -> CaseBegin(s)
      [] s.firmwareUpdateState = FWUD_STATE_GLOBALS_REQ_SEND ->
            Restart(To(Emit(Emit(s, <<"signalRequestGlobals">>), <<"signalFwProgress", 10>>),
                       FWUD_STATE_GLOBALS_REQ_SENT_WAIT))
      [] s.firmwareUpdateState = FWUD_STATE_GLOBALS_REQ_SENT_WAIT ->
            CaseGlobalsReqSentWait(s, remaining)
      [] s.firmwareUpdateState = FWUD_STATE_GLOBALS_RCVD ->
            Restart(To(Emit([s EXCEPT !.pollingStatus = FALSE], <<"signalFwProgress", 20>>),
                       FWUD_STATE_BL_SEND))
      [] s.firmwareUpdateState = FWUD_STATE_BL_SEND -> CaseBlSend(s)
      [] s.firmwareUpdateState = FWUD_STATE_BL_SENT_WAIT -> CaseSentWait(s, remaining)
      [] s.firmwareUpdateState = FWUD_STATE_BL_MODE -> CaseBlMode(s)
      [] s.firmwareUpdateState = FWUD_STATE_FW_SEND -> CaseFwSend(s)
      [] s.firmwareUpdateState = FWUD_STATE_FW_SENT_WAIT -> CaseSentWait(s, remaining)
      [] s.firmwareUpdateState = FWUD_STATE_GLOBALS_SEND ->
            Restart(To(Emit(Emit(s, <<"signalRestoreGlobals">>), <<"signalFwProgress", 90>>),
                       FWUD_STATE_SUCCESS))
      [] s.firmwareUpdateState = FWUD_STATE_SUCCESS -> CaseSuccess(s)
      [] s.firmwareUpdateState = FWUD_STATE_FAIL -> CaseFail(s)

\* the port numbers follow the names the registry now gives
\* a tick that leaves the input where it is
HealIn_never(s) == s

HealIn(s) ==
    IF s.port_in # getInPortNumber(s.portName_in)
    THEN slotUpdatePortIn(s, getInPortNumber(s.portName_in)) ELSE s

HealOut(s) ==
    IF s.port_out # getOutPortNumber(s.portName_out)
    THEN slotUpdatePortOut(s, getOutPortNumber(s.portName_out)) ELSE s

\* only send a request once every 5 seconds, and none while
\* fwVerPollSkipConnectCycles counts down
VersionPoll(s) ==
    IF s.firstFwVerRequestHasBeenSent = FALSE \/ s.fwVerRequestTimer > 5000
    THEN [(IF s.fwVerPollSkipConnectCycles > 0
           THEN [s EXCEPT !.fwVerPollSkipConnectCycles = @ - 1]
           ELSE slotSendSysEx(s, _sx_id_req_standard))
            EXCEPT !.firstFwVerRequestHasBeenSent = TRUE,
                   !.fwVerRequestTimer = 0]
    ELSE s

PollingBlock(s, setUp) ==
    IF s.returned \/ ~(s.pollingStatus /\ setUp) THEN s
    ELSE VersionPoll(HealOut(HealIn(s)))

\* the handler at the timer readings of s: remainingSeconds is read before
\* a packet that is not empty restarts the timer
PollVersionAt(s) ==
    PollingBlock(StateSwitch(IF Len(s.packet) > 0 THEN Restart(s) ELSE s,
                             remainingSeconds(s)),
                 portsAreSetUp(s))

slotPollVersion(s, dt) == PollVersionAt(Elapse(s, dt))

-----------------------------------------------------------------------------
(* slotProcessSysEx *)

\* the generic identity reply of a device: product id at 8, bootloader flag
\* at 9, bootloader version at 12..14, firmware version at 15..17
IdentityReply(pid, boot, fwVersion) ==
    _sx_id_reply_standard \o <<0, 1, 95, pid, boot, 0, 0, 1, 0, 0>> \o fwVersion
    \o <<MIDI_SX_STOP>>

\* a detection that leaves the output port open
FeedbackLoop_inputOnly(s) ==
    Emit([slotCloseMidiIn(s, SIGNAL_SEND) EXCEPT !.refresh = TRUE],
         <<"signalFeedbackLoopDetected">>)

FeedbackLoop(s) ==
    Emit([slotCloseMidiOut(slotCloseMidiIn(s, SIGNAL_SEND), SIGNAL_SEND)
            EXCEPT !.refresh = TRUE],
         <<"signalFeedbackLoopDetected">>)

ReplyStandard(s, m) ==
    IF At(m, 9) = 1
    THEN [s EXCEPT !.pollingStatus = FALSE,
                   !.deviceFirmwareVersion = <<At(m, 15), At(m, 16), At(m, 17)>>,
                   !.bootloaderMode = TRUE,
                   !.deviceName = IF @ \in {"QuNexus Bootloader", "AUX Bootloader",
                                            " Bootloader"}
                                  THEN @
                                  ELSE IF @ = "QuNexus" THEN "QuNexus Bootloader"
                                  ELSE IF @ = "AUX" THEN "AUX Bootloader"
                                  ELSE " Bootloader"]
    ELSE slotUpdatePID([s EXCEPT !.pollingStatus = FALSE,
                                 !.deviceFirmwareVersion =
                                     <<At(m, 15), At(m, 16), At(m, 17)>>,
                                 !.bootloaderMode = FALSE],
                       At(m, 8))

\* after a reply: the state machine, or the editor, learns of the firmware
FirmwareChecked(s, ignoreFwVersionCheck) ==
    IF s.bootloaderMode
    THEN IF s.firmwareUpdateState # 0 THEN To(s, FWUD_STATE_BL_MODE)
         ELSE Emit(s, <<"signalBootloaderMode", FALSE>>)
    ELSE IF s.deviceFirmwareVersion = applicationFirmwareVersion \/ ignoreFwVersionCheck
    THEN IF s.firmwareUpdateState # 0
         THEN IF s.firmwareUpdateState >= FWUD_STATE_FW_SENT_WAIT
              THEN To(s, IF s.fwSaveRestoreGlobals = TRUE THEN FWUD_STATE_GLOBALS_SEND
                         ELSE FWUD_STATE_SUCCESS)
              ELSE s
         ELSE [Emit(Emit(s, <<"signalFirmwareDetected", TRUE>>), <<"signalConnected", TRUE>>)
                 EXCEPT !.connected = TRUE]
    ELSE Emit(s, <<"signalFirmwareDetected", FALSE>>)

\* the feedback-loop test, then the generic identity reply; any other SysEx
\* is passed on to the editor
slotProcessSysEx(s, m, ignoreFwVersionCheck) ==
    LET Replied(r) ==
            IF IndexOf(m, _sx_id_reply_standard) = 0
            THEN FirmwareChecked(ReplyStandard(r, m), ignoreFwVersionCheck)
            ELSE Emit(Emit(r, <<"signalRxSysExBA", m>>), <<"signalRxSysEx", m>>)
    IN  Replied(IF IndexOf(m, _sx_ack_loop_test) = 0 THEN FeedbackLoop(s) ELSE s)

slotRequestFirmwareUpdate(s) == To(s, FWUD_STATE_BEGIN)

slotOpenFirmwareFile(s, file) == [s EXCEPT !.firmwareByteArray = file, !.ret = TRUE]

-----------------------------------------------------------------------------
(* slotParsePacket and midiInCallback *)

\* a shift by a whole byte
ShiftOr_byDigit(msb, lsb) == msb * 256 + lsb

\* (msb << 7) | lsb for two unsigned chars
ShiftOr(msb, lsb) ==
    msb * 128 + lsb - (IF msb % 2 = 1 /\ lsb >= 128 THEN 128 ELSE 0)

EmitParam(s) ==
    IF s.paramMode = MODE_RPN
    THEN Emit(s, <<"signalRxMidi_RPN", s.chan,
                   ShiftOr(s.RPN_MSB[s.chan], s.RPN_LSB[s.chan]),
                   ShiftOr(s.RPN_DATA_MSB[s.chan], s.RPN_DATA_LSB[s.chan])>>)
    ELSE Emit(s, <<"signalRxMidi_NRPN", s.chan,
                   ShiftOr(s.NRPN_MSB[s.chan], s.NRPN_LSB[s.chan]),
                   ShiftOr(s.NRPN_DATA_MSB[s.chan], s.NRPN_DATA_LSB[s.chan])>>)

\* an increment and decrement of an unsigned char that is not tested first
DataStep_unclamped(s, d) ==
    IF s.paramMode = MODE_RPN
    THEN EmitParam([s EXCEPT !.RPN_DATA_LSB[s.chan] = (@ + d) % 256])
    ELSE IF s.paramMode = MODE_NRPN
    THEN EmitParam([s EXCEPT !.NRPN_DATA_LSB[s.chan] = (@ + d) % 256])
    ELSE s

\* case MIDI_CC_DATA_INC (d = 1) and case MIDI_CC_DATA_DEC (d = -1): the data
\* LSB of the mode moves by one unless it is at 0xFF or at 0, and the value
\* is emitted when it has moved
DataStep(s, d) ==
    IF s.paramMode = MODE_RPN
       /\ (IF d = 1 THEN s.RPN_DATA_LSB[s.chan] < 255 ELSE s.RPN_DATA_LSB[s.chan] > 0)
    THEN EmitParam([s EXCEPT !.RPN_DATA_LSB[s.chan] = @ + d])
    ELSE IF s.paramMode = MODE_NRPN
            /\ (IF d = 1 THEN s.NRPN_DATA_LSB[s.chan] < 255
                ELSE s.NRPN_DATA_LSB[s.chan] > 0)
    THEN EmitParam([s EXCEPT !.NRPN_DATA_LSB[s.chan] = @ + d])
    ELSE s

\* switch (cc): RPN and NRPN addresses and data entry
ParamSwitch(s, cc, val) ==
    CASE cc = MIDI_CC_RPN_LSB -> [s EXCEPT !.RPN_LSB[s.chan] = val, !.paramMode = MODE_RPN]
      [] cc = MIDI_CC_RPN_MSB -> [s EXCEPT !.RPN_MSB[s.chan] = val, !.paramMode = MODE_RPN]
      [] cc = MIDI_CC_NRPN_LSB -> [s EXCEPT !.NRPN_LSB[s.chan] = val, !.paramMode = MODE_NRPN]
      [] cc = MIDI_CC_NRPN_MSB -> [s EXCEPT !.NRPN_MSB[s.chan] = val, !.paramMode = MODE_NRPN]
      [] cc = MIDI_CC_DATA_MSB ->
            IF s.paramMode = MODE_RPN THEN [s EXCEPT !.RPN_DATA_MSB[s.chan] = val]
            ELSE IF s.paramMode = MODE_NRPN THEN [s EXCEPT !.NRPN_DATA_MSB[s.chan] = val]
            ELSE s
      [] cc = MIDI_CC_DATA_LSB ->
            IF s.paramMode = MODE_RPN THEN EmitParam([s EXCEPT !.RPN_DATA_LSB[s.chan] = val])
            ELSE IF s.paramMode = MODE_NRPN
            THEN EmitParam([s EXCEPT !.NRPN_DATA_LSB[s.chan] = val])
            ELSE s
      [] cc = MIDI_CC_DATA_INC -> DataStep(s, 1)
      [] cc = MIDI_CC_DATA_DEC -> DataStep(s, -1)
      [] OTHER -> s

\* a switch (status) that keeps the parameter controllers to the assembler
StatusSwitch_intercepting(s, data1, data2) ==
    CASE s.status = MIDI_NOTE_OFF -> Emit(s, <<"signalRxMidi_noteOff", s.chan, data1, data2>>)
      [] s.status = MIDI_NOTE_ON -> Emit(s, <<"signalRxMidi_noteOn", s.chan, data1, data2>>)
      [] s.status = MIDI_NOTE_AFTERTOUCH ->
            Emit(s, <<"signalRxMidi_polyAT", s.chan, data1, data2>>)
      [] s.status = MIDI_CONTROL_CHANGE ->
            ParamSwitch(IF data1 \in {MIDI_CC_DATA_MSB, MIDI_CC_DATA_LSB, MIDI_CC_DATA_INC,
                                      MIDI_CC_DATA_DEC, MIDI_CC_NRPN_LSB, MIDI_CC_NRPN_MSB,
                                      MIDI_CC_RPN_LSB, MIDI_CC_RPN_MSB}
                        THEN s
                        ELSE Emit(s, <<"signalRxMidi_controlChange", s.chan, data1, data2>>),
                        data1, data2)
      [] s.status = MIDI_PROG_CHANGE -> Emit(s, <<"signalRxMidi_progChange", s.chan, data1>>)
      [] s.status = MIDI_CHANNEL_PRESSURE ->
            Emit(s, <<"signalRxMidi_aftertouch", s.chan, data1>>)
      [] s.status = MIDI_PITCH_BEND ->
            Emit(s, <<"signalRxMidi_pitchBend", s.chan, ShiftOr(data1, data2)>>)
      [] s.status = MIDI_MTC -> Emit(s, <<"signalRxMidi_MTC", data1, data2>>)
      [] s.status = MIDI_SONG_POSITION -> Emit(s, <<"signalRxMidi_SongPosition", data1, data2>>)
      [] s.status = MIDI_SONG_SELECT -> Emit(s, <<"signalRxMidi_SongSelect", data1>>)
      [] s.status = MIDI_TUNE_REQUEST -> Emit(s, <<"signalRxMidi_TuneReq">>)
      [] s.status = MIDI_RT_CLOCK -> Emit(s, <<"signalRxMidi_Clock">>)
      [] s.status = MIDI_RT_START -> Emit(s, <<"signalRxMidi_Start">>)
      [] s.status = MIDI_RT_CONTINUE -> Emit(s, <<"signalRxMidi_Continue">>)
      [] s.status = MIDI_RT_STOP -> Emit(s, <<"signalRxMidi_Stop">>)
      [] s.status = MIDI_RT_ACTIVE_SENSE -> Emit(s, <<"signalRxMidi_ActSense">>)
      [] s.status = MIDI_RT_RESET -> Emit(s, <<"signalRxMidi_SysReset">>)
      [] OTHER -> s

\* switch (status), on the status the parser has latched
StatusSwitch(s, data1, data2) ==
    CASE s.status = MIDI_NOTE_OFF -> Emit(s, <<"signalRxMidi_noteOff", s.chan, data1, data2>>)
      [] s.status = MIDI_NOTE_ON -> Emit(s, <<"signalRxMidi_noteOn", s.chan, data1, data2>>)
      [] s.status = MIDI_NOTE_AFTERTOUCH ->
            Emit(s, <<"signalRxMidi_polyAT", s.chan, data1, data2>>)
      [] s.status = MIDI_CONTROL_CHANGE ->
            ParamSwitch(Emit(s, <<"signalRxMidi_controlChange", s.chan, data1, data2>>),
                        data1, data2)
      [] s.status = MIDI_PROG_CHANGE -> Emit(s, <<"signalRxMidi_progChange", s.chan, data1>>)
      [] s.status = MIDI_CHANNEL_PRESSURE ->
            Emit(s, <<"signalRxMidi_aftertouch", s.chan, data1>>)
      [] s.status = MIDI_PITCH_BEND ->
            Emit(s, <<"signalRxMidi_pitchBend", s.chan, ShiftOr(data1, data2)>>)
      [] s.status = MIDI_MTC -> Emit(s, <<"signalRxMidi_MTC", data1, data2>>)
      [] s.status = MIDI_SONG_POSITION -> Emit(s, <<"signalRxMidi_SongPosition", data1, data2>>)
      [] s.status = MIDI_SONG_SELECT -> Emit(s, <<"signalRxMidi_SongSelect", data1>>)
      [] s.status = MIDI_TUNE_REQUEST -> Emit(s, <<"signalRxMidi_TuneReq">>)
      [] s.status = MIDI_RT_CLOCK -> Emit(s, <<"signalRxMidi_Clock">>)
      [] s.status = MIDI_RT_START -> Emit(s, <<"signalRxMidi_Start">>)
      [] s.status = MIDI_RT_CONTINUE -> Emit(s, <<"signalRxMidi_Continue">>)
      [] s.status = MIDI_RT_STOP -> Emit(s, <<"signalRxMidi_Stop">>)
      [] s.status = MIDI_RT_ACTIVE_SENSE -> Emit(s, <<"signalRxMidi_ActSense">>)
      [] s.status = MIDI_RT_RESET -> Emit(s, <<"signalRxMidi_SysReset">>)
      [] OTHER -> s

\* status and chan are the function's statics: a first byte above 127 sets
\* them to its high and low nibble, any other first byte is taken as data
\* under the status kept.  The raw event comes first
slotParsePacket(s, packetArray) ==
    LET Parsed(r, data1, data2) ==
            StatusSwitch(Emit(r, <<"signalRxMidi_raw", r.status, data1, data2, r.chan>>),
                         data1, data2)
    IN  IF packetArray[1] > 127
        THEN Parsed([s EXCEPT !.status = packetArray[1] - (packetArray[1] % 16),
                              !.chan = packetArray[1] % 16],
                    At(packetArray, 1), At(packetArray, 2))
        ELSE Parsed(s, At(packetArray, 0), At(packetArray, 1))

\* a callback that hands every message to the channel parser as well
midiInCallback_both(s, message, ignoreFwVersionCheck) ==
    IF ~s.ioGate \/ ~(Len(message) < 999) THEN s
    ELSE IF message[1] # MIDI_SX_START
    THEN slotParsePacket([s EXCEPT !.handed = Append(@, "slotParsePacket")], message)
    ELSE slotParsePacket(
             [slotProcessSysEx([s EXCEPT !.handed = Append(@, "slotProcessSysEx")],
                               message, ignoreFwVersionCheck)
                 EXCEPT !.handed = Append(@, "slotParsePacket")],
             message)

\* the message goes to slotParsePacket, or to slotProcessSysEx when it starts
\* with 0xF0; while ioGate is false, and when the message has 999 bytes or
\* more, it goes nowhere
midiInCallback(s, message, ignoreFwVersionCheck) ==
    IF ~s.ioGate \/ ~(Len(message) < 999) THEN s
    ELSE IF message[1] # MIDI_SX_START
    THEN slotParsePacket([s EXCEPT !.handed = Append(@, "slotParsePacket")], message)
    ELSE slotProcessSysEx([s EXCEPT !.handed = Append(@, "slotProcessSysEx")],
                          message, ignoreFwVersionCheck)

slotTestFeedbackLoop(s) == slotSendSysEx(s, _sx_ack_loop_test)


-----------------------------------------------------------------------------
(* slotSendMIDI *)

MAX_MIDI_PACKET_SIZE == 64

\* the bytes slotSendMIDI appends to the packet, <<>> where the call returns
\* on bad data or an undefined status; a chan of 255 stands for no channel
SendMIDIBytes(status, d1, d2, chan) ==
    LET newStatus == (status + (IF chan < 16 THEN chan ELSE 0)) % 256
        badChan == chan # 255 /\ chan > 127
    IN  IF status \in {MIDI_NOTE_OFF, MIDI_NOTE_ON, MIDI_NOTE_AFTERTOUCH,
                       MIDI_CONTROL_CHANGE, MIDI_PITCH_BEND}
        THEN (IF badChan \/ d1 > 127 \/ d2 > 127 THEN <<>> ELSE <<newStatus, d1, d2>>)
        ELSE IF status \in {MIDI_PROG_CHANGE, MIDI_CHANNEL_PRESSURE}
        THEN (IF badChan \/ d1 > 127 THEN <<>> ELSE <<newStatus, d1>>)
        ELSE IF newStatus \in {MIDI_MTC, MIDI_SONG_POSITION}
        THEN (IF d1 > 127 \/ d2 > 127 THEN <<>> ELSE <<newStatus, d1, d2>>)
        ELSE IF newStatus = MIDI_SONG_SELECT
        THEN (IF d1 > 127 THEN <<>> ELSE <<newStatus, d1>>)
        ELSE IF newStatus \in {MIDI_TUNE_REQUEST, MIDI_RT_CLOCK, MIDI_RT_START,
                               MIDI_RT_CONTINUE, MIDI_RT_STOP, MIDI_RT_ACTIVE_SENSE,
                               MIDI_RT_RESET}
        THEN <<newStatus>>
        ELSE <<>>

\* restart is false from the constructor on and never assigned again.  The
\* message is appended before the output port is looked at, and the buffer
\* is emptied at once when it has grown beyond MAX_MIDI_PACKET_SIZE.
slotSendMIDI(s, status, d1, d2, chan) ==
    LET bytes == SendMIDIBytes(status, d1, d2, chan)
        Appended(r) ==
            IF r.port_out_open = FALSE THEN r
            ELSE IF Len(r.packet) > MAX_MIDI_PACKET_SIZE THEN slotEmptyMIDIBuffer(r)
            ELSE r
    IN  IF ~s.connected THEN s
        ELSE IF s.ioGate = FALSE THEN s
        ELSE IF bytes = <<>> THEN s
        ELSE Appended([s EXCEPT !.packet = @ \o bytes, !.queued = Append(@, bytes)])

\* a slotSendMIDI_NRPN that sends the address with every value
slotSendMIDI_NRPN_addressAlways(s, parameter_number, value, channel, differs) ==
    LET addressed ==
            slotSendMIDI(
                slotSendMIDI([s EXCEPT !.LAST_SENT_NRPN[channel] = parameter_number % 65536],
                             MIDI_CONTROL_CHANGE, MIDI_CC_NRPN_MSB,
                             (parameter_number \div 128) % 128, channel),
                MIDI_CONTROL_CHANGE, MIDI_CC_NRPN_LSB, parameter_number % 128, channel)
    IN  IF (channel \div 16) % 16 # 0 THEN s
        ELSE slotSendMIDI(
                 slotSendMIDI(addressed,
                              MIDI_CONTROL_CHANGE, MIDI_CC_DATA_MSB, (value \div 128) % 128,
                              channel),
                 MIDI_CONTROL_CHANGE, MIDI_CC_DATA_LSB, value % 128, channel)

\* parameter_number is compared with LAST_SENT_NRPN[channel], a uint16_t, and
\* stored there; differs is what the comparison gives where the element has
\* never been written.  The address goes out when the two differ, the value
\* always; each of the CCs goes through slotSendMIDI
slotSendMIDI_NRPN(s, parameter_number, value, channel, differs) ==
    LET changed == IF s.LAST_SENT_NRPN[channel] = Indeterminate THEN differs
                   ELSE parameter_number # s.LAST_SENT_NRPN[channel]
        addressed ==
            slotSendMIDI(
                slotSendMIDI([s EXCEPT !.LAST_SENT_NRPN[channel] = parameter_number % 65536],
                             MIDI_CONTROL_CHANGE, MIDI_CC_NRPN_MSB,
                             (parameter_number \div 128) % 128, channel),
                MIDI_CONTROL_CHANGE, MIDI_CC_NRPN_LSB, parameter_number % 128, channel)
    IN  IF (channel \div 16) % 16 # 0 THEN s
        ELSE slotSendMIDI(
                 slotSendMIDI(IF changed THEN addressed ELSE s,
                              MIDI_CONTROL_CHANGE, MIDI_CC_DATA_MSB, (value \div 128) % 128,
                              channel),
                 MIDI_CONTROL_CHANGE, MIDI_CC_DATA_LSB, value % 128, channel)
-----------------------------------------------------------------------------
(* The session's steps *)

\* what the device reports: in bootloader mode or not, an older firmware or
\* the one the application expects
IdentityReplies ==
    {IdentityReply(PID_QUNEXUS, boot, v) :
        boot \in {0, 1}, v \in {<<1, 0, 0>>, applicationFirmwareVersion}}

\* whether syxExTxChunkTimer reads less than sysExTxChunkDelay: the reading
\* matters when a chunk is due
ChunkTimerReadings ==
    IF Len(mdm.packet) > sysExTxChunkSize \/ mdm.sendLastChunk THEN BOOLEAN ELSE {FALSE}

\* what a step's record keeps of the object before the call; regIn and
\* regOut are the port numbers the registry gave for the session's port
\* names then
Before(m) ==
    [f \in {"port_in", "port_out", "ioGate", "status", "chan", "paramMode", "RPN_MSB",
            "RPN_LSB", "NRPN_MSB", "NRPN_LSB", "RPN_DATA_MSB", "RPN_DATA_LSB",
            "NRPN_DATA_MSB", "NRPN_DATA_LSB", "LAST_SENT_NRPN", "connected"} |-> m[f]]
    @@ [queued |-> Len(m.packet)]

NoStep == [op |-> "none", from |-> FWUD_STATE_IDLE, elapsed |-> 0, remaining |-> 0,
           busy |-> FALSE, polling |-> FALSE, emitted |-> <<>>, sent |-> <<>>,
           handed |-> <<>>, rx |-> <<>>, queued |-> <<>>,
           pre |-> Before(Constructed) @@ [regIn |-> -1, regOut |-> -1]]

\* imageSent, matchAfter: FW_SEND has handed the image to the output in this
\* update, and a reply has since reported the expected version; midFrame: the
\* bytes transmitted so far end inside a SysEx; rxLog: the messages
\* midiInCallback was called with, where a run of them is followed;
\* loopDetected: the feedback loop has been detected since the state machine
\* was last idle; queuedLog, wireLog: the messages appended to the packet and
\* the messages handed to the transport since the packet was last empty,
\* where the queue is followed; imageSends: how often FW_SEND has handed the
\* image to the output in this update, counted up to MaxImageSends; stale:
\* the bytes slotCloseMidiOut has left in the packet, where the queue is
\* followed; nrpnCall: the arguments of the slotSendMIDI_NRPN call that has
\* just returned; addrQueued: for each channel the parameter number whose
\* address CCs were last appended to the packet since the output port was
\* opened, as a sequence of one, <<>> where none were
NoHist == [imageSent |-> FALSE, matchAfter |-> FALSE, midFrame |-> FALSE, rxLog |-> <<>>,
           loopDetected |-> FALSE, queuedLog |-> <<>>, wireLog |-> <<>>, imageSends |-> 0,
           stale |-> 0, nrpnCall |-> <<>>,
           addrQueued |-> [i \in 0..(NUM_MIDI_CHANNELS - 1) |-> <<>>]]

MaxImageSends == 2

InitFw ==
    /\ mdm = Constructed
    /\ fwStep = NoStep
    /\ fwHist = NoHist

\* the handler op has run at timer readings t and left the object as r;
\* slotRefreshPortMaps has run when the handler has called it
Ran(op, t, r, h) ==
    /\ mdm' = Fields(r)
    /\ fwHist' = [h EXCEPT !.midFrame =
                               IF r.sent = <<>> THEN @
                               ELSE r.sent[Len(r.sent)][Len(r.sent[Len(r.sent)])]
                                        # MIDI_SX_STOP,
                           !.loopDetected =
                               IF r.firmwareUpdateState = FWUD_STATE_IDLE THEN FALSE
                               ELSE IF \E i \in 1..Len(r.emitted) :
                                          r.emitted[i] = <<"signalFeedbackLoopDetected">>
                               THEN TRUE
                               ELSE @]
    /\ fwStep' = [op |-> op,
                  from |-> mdm.firmwareUpdateState,
                  elapsed |-> t.firmwareUpdateStateTimer,
                  remaining |-> remainingSeconds(t),
                  busy |-> Len(mdm.packet) > 0,
                  polling |-> mdm.pollingStatus /\ portsAreSetUp(mdm),
                  emitted |-> r.emitted,
                  sent |-> r.sent,
                  handed |-> r.handed,
                  rx |-> r.rx,
                  queued |-> r.queued,
                  pre |-> Before(mdm) @@ [regIn |-> getInPortNumber(mdm.portName_in),
                                          regOut |-> getOutPortNumber(mdm.portName_out)]]
    /\ IF r.refresh
       THEN /\ midiInputPorts' = EmptyMap
            /\ midiOutputPorts' = EmptyMap
            /\ ScanForgotten
            /\ UNCHANGED <<os, osIn, osOut, lastMIDIIN_QuNexus, lastMIDIOUT_QuNexus>>
       ELSE UNCHANGED portVars
    /\ UNCHANGED notFwVars

\* FW_SEND hands the image to the output when the port is open and the file
\* is there; the record of an update ends when the state machine is idle
HistAfterTick(r) ==
    IF r.firmwareUpdateState = FWUD_STATE_IDLE
    THEN [fwHist EXCEPT !.imageSent = FALSE, !.matchAfter = FALSE, !.imageSends = 0]
    ELSE IF mdm.firmwareUpdateState = FWUD_STATE_FW_SEND /\ mdm.port_out_open
            /\ mdm.firmwareByteArray # <<>>
    THEN [fwHist EXCEPT !.imageSent = TRUE, !.matchAfter = FALSE,
                        !.imageSends = Min(@ + 1, MaxImageSends)]
    ELSE fwHist

\* a generic identity reply reports the expected firmware version
HistAfterSysEx(m) ==
    IF /\ fwHist.imageSent
       /\ IndexOf(m, _sx_id_reply_standard) = 0
       /\ <<At(m, 15), At(m, 16), At(m, 17)>> = applicationFirmwareVersion
    THEN [fwHist EXCEPT !.matchAfter = TRUE]
    ELSE fwHist

\* midiSendTimer fires a thousand times between two ticks of versionPoller:
\* while the output port is open, the buffer has drained by the next tick
Drained == mdm.port_out_open => mdm.packet = <<>>

\* versionPoller fires, dt after the tick before
PollVersion(dt, tooSoon) ==
    /\ Drained
    /\ Ran("slotPollVersion", Elapse(mdm, dt), slotPollVersion(Call(mdm, tooSoon), dt),
           HistAfterTick(slotPollVersion(Call(mdm, tooSoon), dt)))

\* some message of msgs holds the bytes pat
Transmits(msgs, pat) == \E i \in 1..Len(msgs) : IndexOf(msgs[i], pat) >= 0

\* midiInCallback hands the device's reply to slotProcessSysEx while ioGate
\* is true.  The device answers an identity request at once: its reply is
\* the next thing to happen after the request has gone out
ProcessSysEx(m, ignoreFwVersionCheck) ==
    /\ mdm.midi_in # NoPort
    /\ mdm.ioGate
    /\ Transmits(fwStep.sent, _sx_id_req_standard)
    /\ Ran("slotProcessSysEx", mdm, slotProcessSysEx(Call(mdm, FALSE), m, ignoreFwVersionCheck),
           HistAfterSysEx(m))

\* the editor asks for an update when none is running
RequestFirmwareUpdate ==
    /\ mdm.firmwareUpdateState = FWUD_STATE_IDLE
    /\ Ran("slotRequestFirmwareUpdate", mdm, slotRequestFirmwareUpdate(Call(mdm, FALSE)),
           [fwHist EXCEPT !.imageSent = FALSE, !.matchAfter = FALSE, !.imageSends = 0])

\* the editor loads the firmware file before it asks for an update
OpenFirmwareFile ==
    /\ mdm.firmwareUpdateState = FWUD_STATE_IDLE
    /\ mdm.firmwareByteArray = <<>>
    /\ Ran("slotOpenFirmwareFile", mdm, slotOpenFirmwareFile(Call(mdm, FALSE), FirmwareImage), fwHist)

\* midiSendTimer fires (it runs while the output port is open)
EmptyMIDIBuffer ==
    /\ mdm.port_out_open
    /\ mdm.packet # <<>>
    /\ Ran("slotEmptyMIDIBuffer", mdm, slotEmptyMIDIBuffer(Call(mdm, FALSE)), fwHist)

\* the editor opens the input port first and closes it last, and leaves it
\* open while an update runs
UpdatePortIn(port) ==
    /\ mdm.firmwareUpdateState = FWUD_STATE_IDLE
    /\ ~mdm.port_in_open
    /\ Ran("slotUpdatePortIn", mdm, slotUpdatePortIn(Call(mdm, FALSE), port), fwHist)

UpdatePortOut(port) ==
    /\ mdm.port_in_open
    /\ ~mdm.port_out_open
    /\ Ran("slotUpdatePortOut", mdm, slotUpdatePortOut(Call(mdm, FALSE), port), fwHist)

CloseMidiIn ==
    /\ mdm.firmwareUpdateState = FWUD_STATE_IDLE
    /\ mdm.port_in_open
    /\ ~mdm.port_out_open
    /\ Ran("slotCloseMidiIn", mdm, slotCloseMidiIn(Call(mdm, FALSE), SIGNAL_SEND), fwHist)

CloseMidiOut(tooSoon) ==
    /\ mdm.port_out_open
    /\ Ran("slotCloseMidiOut", mdm, slotCloseMidiOut(Call(mdm, tooSoon), SIGNAL_SEND), fwHist)

\* the editor sets pollingStatus to true when it has opened the ports
EditorStartsPolling ==
    /\ ~mdm.pollingStatus
    /\ fwStep.op = "slotUpdatePortOut"
    /\ Ran("pollingStatus", mdm, [Call(mdm, FALSE) EXCEPT !.pollingStatus = TRUE], fwHist)

\* the editor chooses, between updates, whether globals are saved and restored
EditorSetsSaveRestoreGlobals(flag) ==
    /\ mdm.firmwareUpdateState = FWUD_STATE_IDLE
    /\ mdm.fwSaveRestoreGlobals # flag
    /\ Ran("fwSaveRestoreGlobals", mdm, [Call(mdm, FALSE) EXCEPT !.fwSaveRestoreGlobals = flag], fwHist)

\* the editor has received the globals it was asked for
EditorGlobalsReceived ==
    /\ mdm.firmwareUpdateState = FWUD_STATE_GLOBALS_REQ_SENT_WAIT
    /\ Ran("firmwareUpdateState", mdm, To(Call(mdm, FALSE), FWUD_STATE_GLOBALS_RCVD), fwHist)

\* the editor opens another port while one is open
ReopenPortIn(port) ==
    /\ mdm.firmwareUpdateState = FWUD_STATE_IDLE
    /\ mdm.port_in_open
    /\ Ran("slotUpdatePortIn", mdm, slotUpdatePortIn(Call(mdm, FALSE), port), fwHist)

ReopenPortOut(port) ==
    /\ mdm.firmwareUpdateState = FWUD_STATE_IDLE
    /\ mdm.port_out_open
    /\ Ran("slotUpdatePortOut", mdm, slotUpdatePortOut(Call(mdm, FALSE), port), fwHist)

\* the editor tests for a feedback loop when nothing waits in the buffer
TestFeedbackLoop ==
    /\ mdm.packet = <<>>
    /\ Ran("slotTestFeedbackLoop", mdm, slotTestFeedbackLoop(Call(mdm, FALSE)), fwHist)

\* a preset dump of DumpLen data bytes
DumpLen == 148
PresetDump == <<MIDI_SX_START>> \o [i \in 1..DumpLen |-> i % 128] \o <<MIDI_SX_STOP>>

\* the editor sends a preset between updates, also while an earlier one is
\* still in the buffer
SendSysEx(sysEx) ==
    /\ mdm.firmwareUpdateState = FWUD_STATE_IDLE
    /\ mdm.port_out_open
    /\ Len(mdm.packet) <= MAX_MIDI_SYSEX_SIZE
    /\ Ran("slotSendSysEx", mdm, slotSendSysEx(Call(mdm, FALSE), sysEx), fwHist)

\* RtMidi calls midiInCallback with a message from the port midi_in holds;
\* the loop test comes in when it has just gone out
MidiIn(message, log) ==
    /\ mdm.midi_in # NoPort
    /\ message = _sx_ack_loop_test => Transmits(fwStep.sent, _sx_ack_loop_test)
    /\ Ran("midiInCallback", mdm,
           [midiInCallback(Call(mdm, FALSE), message, FALSE) EXCEPT !.rx = message],
           [fwHist EXCEPT !.rxLog = log])

\* the OS enumerates the devices anew, inputs and outputs alike; what fwStep
\* says of the last call is of the enumeration before
Replug(ports) ==
    /\ ports # osIn \/ ports # osOut
    /\ osIn' = ports
    /\ osOut' = ports
    /\ ScanForgotten
    /\ fwStep' = [NoStep EXCEPT !.op = "replug"]
    /\ UNCHANGED <<os, midiInputPorts, midiOutputPorts, lastMIDIIN_QuNexus,
                   lastMIDIOUT_QuNexus, codecVars, mdm, fwHist>>

\* the session of one device through updates; the editor tests for a feedback
\* loop on the tick after the bootloader command, and the test comes back in
NextFw ==
    \/ \E dt \in {PollInterval}, tooSoon \in ChunkTimerReadings : PollVersion(dt, tooSoon)
    \/ \E m \in IdentityReplies, ignore \in BOOLEAN : ProcessSysEx(m, ignore)
    \/ RequestFirmwareUpdate
    \/ OpenFirmwareFile
    \/ EmptyMIDIBuffer
    \/ \E port \in {0} : UpdatePortIn(port)
    \/ \E port \in {0} : UpdatePortOut(port)
    \/ CloseMidiIn
    \/ \E tooSoon \in ChunkTimerReadings : CloseMidiOut(tooSoon)
    \/ EditorStartsPolling
    \/ \E flag \in BOOLEAN : EditorSetsSaveRestoreGlobals(flag)
    \/ EditorGlobalsReceived
    \/ fwStep.from = FWUD_STATE_BL_SEND /\ TestFeedbackLoop
    \/ MidiIn(_sx_ack_loop_test, fwHist.rxLog)

\* the QuNexus alone, behind a K-Board, and unplugged while the K-Board stays
SessionEnumerations ==
    {<<[dev |-> "QuNexus", ord |-> 1]>>,
     <<[dev |-> "K-Board", ord |-> 1], [dev |-> "QuNexus", ord |-> 1]>>,
     <<[dev |-> "K-Board", ord |-> 1]>>}

\* the session while devices are plugged, unplugged and renumbered
NextSession ==
    \/ \E ports \in SessionEnumerations : Replug(ports)
    \/ \E port \in {0, 1} : UpdatePortIn(port)
    \/ \E port \in {0, 1} : UpdatePortOut(port)
    \/ \E port \in {0, 1} : ReopenPortIn(port)
    \/ \E port \in {0, 1} : ReopenPortOut(port)
    \/ CloseMidiIn
    \/ CloseMidiOut(FALSE)
    \/ EditorStartsPolling
    \/ \E dt \in {PollInterval} : PollVersion(dt, FALSE)

\* the editor sends presets and identity requests through an output port it
\* opens and closes, and the send timer drains the buffer
NextSend ==
    \/ \E port \in {0} : UpdatePortIn(port)
    \/ \E port \in {0} : UpdatePortOut(port)
    \/ \E tooSoon \in ChunkTimerReadings : CloseMidiOut(tooSoon)
    \/ \E sysEx \in {PresetDump, _sx_id_req_standard} : SendSysEx(sysEx)
    \/ EmptyMIDIBuffer

\* what comes in from the device: notes, system messages, a SysEx, a message
\* of 999 bytes
PlainMessages ==
    {<<144, 64, 127, 68, 80>>, <<144, 64, 127>>, <<144, 68, 80>>, <<68, 80>>,
     <<241, 1>>, <<242, 1, 2>>, <<243, 1>>, <<246>>, <<248>>, <<250>>, <<251>>, <<252>>,
     <<254>>, <<255>>, <<MIDI_SX_START, 1, MIDI_SX_STOP>>,
     [i \in 1..999 |-> IF i = 1 THEN MIDI_NOTE_ON ELSE 0]}

\* RPN and NRPN addresses, data entry, increment and decrement on channel 2
ParamMessages ==
    {<<178, 99, 0>>, <<178, 98, 5>>, <<178, 101, 0>>, <<178, 100, 5>>,
     <<178, 6, 1>>, <<178, 38, 0>>, <<178, 38, 127>>, <<178, 96, 0>>, <<178, 97, 0>>}

\* an NRPN data LSB of 127 and the increments that take it to 255 and on
ClampIncs == 129
ClampRun ==
    <<<<178, 98, 5>>, <<178, 38, 127>>>> \o [i \in 1..ClampIncs |-> <<178, 96, 0>>]

\* the longest runs of messages followed
MaxPlainRx == 2
MaxParamRx == 5

\* the session receives a run of plain messages, or, with its ports set up,
\* a run of parameter messages or the run of increments
NextParser ==
    \/ \E port \in {0} : UpdatePortIn(port)
    \/ \E port \in {0} : UpdatePortOut(port)
    \/ fwHist.rxLog = <<>> /\ TestFeedbackLoop
    \/ MidiIn(_sx_ack_loop_test, fwHist.rxLog)
    \/ \E message \in PlainMessages :
          /\ Len(fwHist.rxLog) < MaxPlainRx
          /\ \A i \in 1..Len(fwHist.rxLog) : fwHist.rxLog[i] \in PlainMessages
          /\ MidiIn(message, Append(fwHist.rxLog, message))
    \/ \E message \in ParamMessages :
          /\ Len(fwHist.rxLog) < MaxParamRx
          /\ \A i \in 1..Len(fwHist.rxLog) : fwHist.rxLog[i] \in ParamMessages
          /\ portsAreSetUp(mdm)
          /\ MidiIn(message, Append(fwHist.rxLog, message))
    \/ /\ Len(fwHist.rxLog) < Len(ClampRun)
       /\ fwHist.rxLog = SubSeq(ClampRun, 1, Len(fwHist.rxLog))
       /\ portsAreSetUp(mdm)
       /\ MidiIn(ClampRun[Len(fwHist.rxLog) + 1],
                 Append(fwHist.rxLog, ClampRun[Len(fwHist.rxLog) + 1]))


-----------------------------------------------------------------------------
(* The transmit queue of a manager for an auxiliary port *)

RECURSIVE Flatten(_)
Flatten(msgs) == IF msgs = <<>> THEN <<>> ELSE Head(msgs) \o Flatten(Tail(msgs))

\* a SysEx of len bytes
QueueFrame(len) == <<MIDI_SX_START>> \o [i \in 1..(len - 2) |-> i % 128] \o <<MIDI_SX_STOP>>

\* the frame lengths the host sends: below the chunk size, one byte above it,
\* with a last chunk of 2, 5 and 6 bytes, and multiples of the chunk size
QueueFrameLens == {6, 49, 50, 53, 54, 96, 144}

\* the channel and system messages the host sends: status, d1, d2, chan
QueueMessages == {<<MIDI_NOTE_ON, 60, 64, 0>>, <<MIDI_PROG_CHANGE, 5, 255, 1>>,
                  <<MIDI_RT_CLOCK, 255, 255, 255>>, <<MIDI_NOTE_ON, 60, 200, 0>>}

\* the host lets at most this many messages wait behind one another, but for
\* a burst of one note
MaxPending == 2
BurstNotes == 22

\* the packet and the flag of the chunk branch are at rest
QueueAtRest(m) == m.packet = <<>> /\ ~m.sendLastChunk

\* the record of the queue after a call that appended the messages in
\* appended and left the object as r
QueueHist(appended, r) ==
    LET fresh == QueueAtRest(mdm)
    IN  [fwHist EXCEPT
            !.queuedLog = (IF fresh THEN <<>> ELSE @) \o appended,
            !.wireLog = (IF fresh THEN <<>> ELSE @) \o r.sent,
            !.stale = IF fresh THEN 0 ELSE @]

\* the host calls slotSendMIDI
HostSendsMIDI(msg) ==
    LET r == slotSendMIDI(Call(mdm, FALSE), msg[1], msg[2], msg[3], msg[4])
        bytes == SendMIDIBytes(msg[1], msg[2], msg[3], msg[4])
        burst == /\ msg = <<MIDI_NOTE_ON, 60, 64, 0>>
                 /\ Len(fwHist.queuedLog) < BurstNotes
                 /\ \A i \in 1..Len(fwHist.queuedLog) : fwHist.queuedLog[i] = bytes
    IN  /\ QueueAtRest(mdm) \/ Len(fwHist.queuedLog) < MaxPending \/ burst
        /\ Ran("slotSendMIDI", mdm, r,
               QueueHist(IF mdm.connected /\ mdm.ioGate /\ bytes # <<>>
                         THEN <<bytes>> ELSE <<>>, r))

\* the host calls slotSendSysEx, whether the output port is open or not
HostSendsSysEx(sysEx) ==
    LET r == slotSendSysEx(Call(mdm, FALSE), sysEx)
    IN  /\ QueueAtRest(mdm) \/ Len(fwHist.queuedLog) < MaxPending
        /\ Ran("slotSendSysEx", mdm, r,
               QueueHist(IF mdm.port_out_open THEN <<sysEx>> ELSE <<>>, r))

\* midiSendTimer fires
QueueTimer(tooSoon) ==
    LET r == slotEmptyMIDIBuffer(Call(mdm, tooSoon))
    IN  /\ mdm.port_out_open
        /\ ~QueueAtRest(mdm)
        /\ Ran("slotEmptyMIDIBuffer", mdm, r, QueueHist(<<>>, r))

\* the host closes the output port
QueueCloseOut(tooSoon) ==
    LET r == slotCloseMidiOut(Call(mdm, tooSoon), SIGNAL_SEND)
    IN  /\ mdm.port_out_open
        /\ Ran("slotCloseMidiOut", mdm, r,
               [QueueHist(<<>>, r) EXCEPT !.stale = Len(r.packet)])

NextQueue ==
    \/ \E port \in {0} : UpdatePortIn(port)
    \/ \E port \in {0} : UpdatePortOut(port)
    \/ \E msg \in QueueMessages : HostSendsMIDI(msg)
    \/ \E len \in QueueFrameLens : HostSendsSysEx(QueueFrame(len))
    \/ \E tooSoon \in ChunkTimerReadings : QueueTimer(tooSoon)
    \/ \E tooSoon \in ChunkTimerReadings : QueueCloseOut(tooSoon)

-----------------------------------------------------------------------------
(* Parameters received and sent by a manager for an auxiliary port *)

\* what comes in: an RPN address on channel 2, an NRPN address on channel 1,
\* a data LSB and a volume change on channel 2
ParamsRx == {<<178, 101, 0>>, <<177, 99, 0>>, <<178, 38, 7>>, <<178, 7, 100>>}

\* what the host sends with slotSendMIDI_NRPN: parameter_number, value, channel
ParamsTx == {<<5, 300, 1>>, <<6, 300, 1>>, <<5, 300, 2>>, <<5, 300, 16>>}

\* the longest run of received messages followed, and the bytes that may
\* wait in the packet when the host sends
MaxParamsRx == 3
MaxParamsPending == 12

\* the address CCs of parameter_number on channel
AddressCCs(parameter_number, channel) ==
    <<<<MIDI_CONTROL_CHANGE + channel, MIDI_CC_NRPN_MSB, (parameter_number \div 128) % 128>>,
      <<MIDI_CONTROL_CHANGE + channel, MIDI_CC_NRPN_LSB, parameter_number % 128>>>>

\* the data CCs of value on channel
DataCCs(value, channel) ==
    <<<<MIDI_CONTROL_CHANGE + channel, MIDI_CC_DATA_MSB, (value \div 128) % 128>>,
      <<MIDI_CONTROL_CHANGE + channel, MIDI_CC_DATA_LSB, value % 128>>>>

\* the messages of ccs are among those in queued
AllQueued(ccs, queued) ==
    \A i \in 1..Len(ccs) : \E j \in 1..Len(queued) : queued[j] = ccs[i]

\* the host calls slotSendMIDI_NRPN; differs is the outcome of the comparison
\* with an element of LAST_SENT_NRPN that was never written
HostSendsNRPN(call, differs) ==
    LET r == slotSendMIDI_NRPN(Call(mdm, FALSE), call[1], call[2], call[3], differs)
    IN  /\ Len(mdm.packet) <= MaxParamsPending
        /\ Ran("slotSendMIDI_NRPN", mdm, r,
               [fwHist EXCEPT
                   !.nrpnCall = call,
                   !.addrQueued =
                       IF call[3] < NUM_MIDI_CHANNELS
                          /\ AllQueued(AddressCCs(call[1], call[3]), r.queued)
                       THEN [@ EXCEPT ![call[3]] = <<call[1]>>]
                       ELSE @])

\* the outcomes of that comparison
ComparisonOutcomes(call) ==
    IF call[3] < NUM_MIDI_CHANNELS /\ mdm.LAST_SENT_NRPN[call[3]] = Indeterminate
    THEN BOOLEAN ELSE {FALSE}

\* a message comes in
ParamsMidiIn(message) ==
    /\ Len(fwHist.rxLog) < MaxParamsRx
    /\ Ran("midiInCallback", mdm,
           [midiInCallback(Call(mdm, FALSE), message, FALSE) EXCEPT !.rx = message],
           [fwHist EXCEPT !.rxLog = Append(@, message), !.nrpnCall = <<>>])
    /\ mdm.midi_in # NoPort

\* the host opens the output port; what was received and queued before does
\* not count from here on
ParamsOpenOut(port) ==
    /\ mdm.port_in_open
    /\ ~mdm.port_out_open
    /\ Ran("slotUpdatePortOut", mdm, slotUpdatePortOut(Call(mdm, FALSE), port),
           [fwHist EXCEPT !.rxLog = <<>>, !.nrpnCall = <<>>,
                          !.addrQueued = [i \in 0..(NUM_MIDI_CHANNELS - 1) |-> <<>>]])

\* the host opens and closes the input port, and closes the output port
ParamsOpenIn(port) ==
    /\ ~mdm.port_in_open
    /\ Ran("slotUpdatePortIn", mdm, slotUpdatePortIn(Call(mdm, FALSE), port),
           [fwHist EXCEPT !.nrpnCall = <<>>])

ParamsCloseIn ==
    /\ mdm.port_in_open
    /\ Ran("slotCloseMidiIn", mdm, slotCloseMidiIn(Call(mdm, FALSE), SIGNAL_SEND),
           [fwHist EXCEPT !.nrpnCall = <<>>])

ParamsCloseOut ==
    /\ mdm.port_out_open
    /\ Ran("slotCloseMidiOut", mdm, slotCloseMidiOut(Call(mdm, FALSE), SIGNAL_SEND),
           [fwHist EXCEPT !.nrpnCall = <<>>])

\* midiSendTimer fires
ParamsTimer ==
    /\ mdm.port_out_open
    /\ mdm.packet # <<>>
    /\ Ran("slotEmptyMIDIBuffer", mdm, slotEmptyMIDIBuffer(Call(mdm, FALSE)),
           [fwHist EXCEPT !.nrpnCall = <<>>])

\* the host calls slotSendSysEx with a short SysEx, whether the output port
\* is open or not
ParamsSendSysEx ==
    /\ Len(mdm.packet) <= MaxParamsPending
    /\ Ran("slotSendSysEx", mdm, slotSendSysEx(Call(mdm, FALSE), QueueFrame(6)),
           [fwHist EXCEPT !.nrpnCall = <<>>])

\* the manager receives
NextParams ==
    \/ \E port \in {0} : ParamsOpenIn(port)
    \/ \E port \in {0} : ParamsOpenOut(port)
    \/ ParamsCloseIn
    \/ ParamsCloseOut
    \/ \E message \in ParamsRx : ParamsMidiIn(message)

\* the manager sends
NextNrpn ==
    \/ \E port \in {0} : ParamsOpenIn(port)
    \/ \E port \in {0} : ParamsOpenOut(port)
    \/ ParamsCloseIn
    \/ ParamsCloseOut
    \/ ParamsTimer
    \/ ParamsSendSysEx
    \/ \E call \in ParamsTx : \E differs \in ComparisonOutcomes(call) :
          HostSendsNRPN(call, differs)
-----------------------------------------------------------------------------
(* Firmware update properties                                              *)

\* C6: every step leaves firmwareUpdateState where it is or takes it along an
\* edge of the progression IDLE -> BEGIN -> [GLOBALS_REQ_SEND ->
\* GLOBALS_REQ_SENT_WAIT -> GLOBALS_RCVD] -> BL_SEND -> BL_SENT_WAIT ->
\* BL_MODE -> FW_SEND -> FW_SENT_WAIT -> [GLOBALS_SEND] -> SUCCESS -> IDLE,
\* an edge into FAIL, or FAIL -> IDLE
C6_LinearProgression ==
    fwStep.from # mdm.firmwareUpdateState =>
        <<fwStep.from, mdm.firmwareUpdateState>> \in
            {<<FWUD_STATE_IDLE, FWUD_STATE_BEGIN>>,
             <<FWUD_STATE_BEGIN, FWUD_STATE_GLOBALS_REQ_SEND>>,
             <<FWUD_STATE_BEGIN, FWUD_STATE_BL_SEND>>,
             <<FWUD_STATE_GLOBALS_REQ_SEND, FWUD_STATE_GLOBALS_REQ_SENT_WAIT>>,
             <<FWUD_STATE_GLOBALS_REQ_SENT_WAIT, FWUD_STATE_GLOBALS_RCVD>>,
             <<FWUD_STATE_GLOBALS_RCVD, FWUD_STATE_BL_SEND>>,
             <<FWUD_STATE_BL_SEND, FWUD_STATE_BL_SENT_WAIT>>,
             <<FWUD_STATE_BL_SENT_WAIT, FWUD_STATE_BL_MODE>>,
             <<FWUD_STATE_BL_MODE, FWUD_STATE_FW_SEND>>,
             <<FWUD_STATE_FW_SEND, FWUD_STATE_FW_SENT_WAIT>>,
             <<FWUD_STATE_FW_SENT_WAIT, FWUD_STATE_GLOBALS_SEND>>,
             <<FWUD_STATE_FW_SENT_WAIT, FWUD_STATE_SUCCESS>>,
             <<FWUD_STATE_GLOBALS_SEND, FWUD_STATE_SUCCESS>>,
             <<FWUD_STATE_SUCCESS, FWUD_STATE_IDLE>>,
             <<FWUD_STATE_FAIL, FWUD_STATE_IDLE>>}
            \cup {<<s, FWUD_STATE_FAIL>> : s \in FWUD_STATE_BEGIN..FWUD_STATE_SUCCESS}

\* C6: after the image has been handed to the output, a reply that reports
\* bootloader mode takes the state machine from FW_SENT_WAIT back to BL_MODE
C6_BackToBootloader ==
    /\ fwStep.op = "slotProcessSysEx"
    /\ fwStep.from = FWUD_STATE_FW_SENT_WAIT
    /\ mdm.firmwareUpdateState = FWUD_STATE_BL_MODE
    /\ fwHist.imageSent

C10_SuccessNeedsImageAndMatch ==
    mdm.firmwareUpdateState = FWUD_STATE_SUCCESS => fwHist.imageSent /\ fwHist.matchAfter

\* C10: SUCCESS in an update whose image was never handed to the output
C10_SuccessWithoutImage ==
    /\ mdm.firmwareUpdateState = FWUD_STATE_SUCCESS
    /\ ~fwHist.imageSent

-----------------------------------------------------------------------------
(* Ports, buffer and parser properties                                     *)

\* the step has emitted the signal named
Signalled(name) == \E i \in 1..Len(fwStep.emitted) : fwStep.emitted[i][1] = name

\* the emits of the step that carry the signal named
SignalsOf(name) == SelectSeq(fwStep.emitted, LAMBDA e : e[1] = name)

\* C11: after slotCloseMidiIn, after slotCloseMidiOut and after the feedback
\* loop has been detected, firmwareUpdateState is IDLE
C11_CancelForcesIdle ==
    fwStep.op \in {"slotCloseMidiIn", "slotCloseMidiOut"}
        \/ Signalled("signalFeedbackLoopDetected")
    => mdm.firmwareUpdateState = FWUD_STATE_IDLE

\* C11: after the feedback loop was detected during the update, a later tick
\* has found the window of BL_SENT_WAIT over and set FAIL
C11_TimeoutAfterCancel ==
    /\ fwStep.op = "slotPollVersion"
    /\ fwStep.from = FWUD_STATE_BL_SENT_WAIT
    /\ mdm.firmwareUpdateState = FWUD_STATE_FAIL
    /\ fwHist.loopDetected

C13_OpenClosesCurrentFirst ==
    /\ fwStep.op = "slotUpdatePortIn" /\ mdm.port_in_open
       => mdm.port_in < Len(osIn) /\ mdm.midi_in = osIn[mdm.port_in + 1]
    /\ fwStep.op = "slotUpdatePortOut" /\ mdm.port_out_open
       => mdm.port_out < Len(osOut) /\ mdm.midi_out = osOut[mdm.port_out + 1]

\* C13: the input was open at port 0 and has been opened at port 1 while the
\* output was closed: the session names port 1, the handle still holds port 0
C13_InputStaysAtOldPort ==
    /\ fwStep.op = "slotUpdatePortIn"
    /\ fwStep.pre.port_in = 0
    /\ mdm.port_in = 1
    /\ mdm.port_in_open
    /\ ~mdm.port_out_open
    /\ Len(osIn) = 2
    /\ mdm.midi_in = osIn[1]
    /\ mdm.portName_in = getInPortName(1)

\* the tick found the name of the input (output) enumerated at another index
\* than port_in (port_out)
InRenumbered == fwStep.pre.regIn >= 0 /\ fwStep.pre.regIn # fwStep.pre.port_in
OutRenumbered == fwStep.pre.regOut >= 0 /\ fwStep.pre.regOut # fwStep.pre.port_out

\* the input (output) is open at the index the tick found
InReopened ==
    /\ mdm.port_in = fwStep.pre.regIn
    /\ mdm.port_in_open
    /\ mdm.midi_in = osIn[mdm.port_in + 1]
OutReopened ==
    /\ mdm.port_out = fwStep.pre.regOut
    /\ mdm.port_out_open
    /\ mdm.midi_out = osOut[mdm.port_out + 1]

C14_OverflowDiscardsAndFaults ==
    fwStep.op = "slotEmptyMIDIBuffer" /\ fwStep.pre.queued > MAX_MIDI_SYSEX_SIZE =>
        /\ mdm.packet = <<>>
        /\ fwStep.sent = <<>>
        /\ fwStep.emitted # <<>>
        /\ ~fwHist.midFrame

\* C14: the buffer has been discarded without a signal after the first bytes
\* of a frame had gone out
C14_TruncatedFrameOnWire ==
    /\ fwStep.op = "slotEmptyMIDIBuffer"
    /\ fwStep.pre.queued > MAX_MIDI_SYSEX_SIZE
    /\ mdm.packet = <<>>
    /\ fwStep.sent = <<>>
    /\ fwStep.emitted = <<>>
    /\ fwHist.midFrame

C17_FiveBytesGiveTwoNotes ==
    /\ fwStep.op = "midiInCallback"
    /\ fwStep.handed = <<"slotParsePacket">>
    /\ fwStep.rx = <<144, 64, 127, 68, 80>>
    => SignalsOf("signalRxMidi_noteOn") = <<<<"signalRxMidi_noteOn", 0, 64, 127>>,
                                            <<"signalRxMidi_noteOn", 0, 68, 80>>>>

\* C17: the message of five bytes has given the first note alone
C17_FiveBytesGiveOneNote ==
    /\ fwStep.op = "midiInCallback"
    /\ fwStep.handed = <<"slotParsePacket">>
    /\ fwStep.rx = <<144, 64, 127, 68, 80>>
    /\ fwStep.emitted = <<<<"signalRxMidi_raw", MIDI_NOTE_ON, 64, 127, 0>>,
                          <<"signalRxMidi_noteOn", 0, 64, 127>>>>

\* the last four messages that came in are control changes on channel 2 with
\* the controllers given, and the last of them has gone to the parser
LastFourCCs(cc1, cc2, cc3, cc4) ==
    LET n == Len(fwHist.rxLog)
    IN  /\ fwStep.op = "midiInCallback"
        /\ fwStep.handed = <<"slotParsePacket">>
        /\ n >= 4
        /\ \A i \in 1..4 :
              /\ Len(fwHist.rxLog[n - 4 + i]) = 3
              /\ fwHist.rxLog[n - 4 + i][1] = MIDI_CONTROL_CHANGE + 2
              /\ fwHist.rxLog[n - 4 + i][2] = <<cc1, cc2, cc3, cc4>>[i]

\* the data byte of the k-th of the last four messages
LastFourValue(k) == fwHist.rxLog[Len(fwHist.rxLog) - 4 + k][3]

\* C18: the CC38 that follows CC99, CC98 and CC6 on channel 2 emits one NRPN
\* event and no RPN event, with parameter addrMSB*128 + addrLSB and value
\* dataMSB*128 + dataLSB; with CC101 and CC100 it is one RPN event and no
\* NRPN event; a CC6 emits neither
C18_ParamOnDataLSB ==
    /\ LastFourCCs(MIDI_CC_NRPN_MSB, MIDI_CC_NRPN_LSB, MIDI_CC_DATA_MSB, MIDI_CC_DATA_LSB)
       => /\ SignalsOf("signalRxMidi_NRPN") =
                <<<<"signalRxMidi_NRPN", 2,
                    LastFourValue(1) * 128 + LastFourValue(2),
                    LastFourValue(3) * 128 + LastFourValue(4)>>>>
          /\ ~Signalled("signalRxMidi_RPN")
    /\ LastFourCCs(MIDI_CC_RPN_MSB, MIDI_CC_RPN_LSB, MIDI_CC_DATA_MSB, MIDI_CC_DATA_LSB)
       => /\ SignalsOf("signalRxMidi_RPN") =
                <<<<"signalRxMidi_RPN", 2,
                    LastFourValue(1) * 128 + LastFourValue(2),
                    LastFourValue(3) * 128 + LastFourValue(4)>>>>
          /\ ~Signalled("signalRxMidi_NRPN")
    /\ fwStep.op = "midiInCallback" /\ Len(fwStep.rx) = 3
          /\ fwStep.rx[1] = MIDI_CONTROL_CHANGE + 2 /\ fwStep.rx[2] = MIDI_CC_DATA_MSB
       => ~Signalled("signalRxMidi_NRPN") /\ ~Signalled("signalRxMidi_RPN")

\* C18: CC99 = 0, CC98 = 5, CC6 = 1, CC38 = 0 on channel 2 have come in and
\* the CC38 has emitted the NRPN event (2, 5, 128)
C18_NRPNExample ==
    /\ fwStep.op = "midiInCallback"
    /\ fwHist.rxLog = <<<<178, 99, 0>>, <<178, 98, 5>>, <<178, 6, 1>>, <<178, 38, 0>>>>
    /\ fwStep.emitted = <<<<"signalRxMidi_raw", MIDI_CONTROL_CHANGE, 38, 0, 2>>,
                          <<"signalRxMidi_controlChange", 2, 38, 0>>,
                          <<"signalRxMidi_NRPN", 2, 5, 128>>>>

\* the step is a control change cc on channel 2 that has gone to the parser
\* in the mode given
CCInMode(cc, mode) ==
    /\ fwStep.op = "midiInCallback"
    /\ fwStep.handed = <<"slotParsePacket">>
    /\ Len(fwStep.rx) = 3
    /\ fwStep.rx[1] = MIDI_CONTROL_CHANGE + 2
    /\ fwStep.rx[2] = cc
    /\ fwStep.pre.paramMode = mode

\* the data LSB lsb has become lsb + d and the event name carries the value
\* with it, or, at the end of the range, has stayed and nothing is emitted
Stepped(lsb, now, d, name, event) ==
    IF (d = 1 /\ lsb < 255) \/ (d = -1 /\ lsb > 0)
    THEN now = lsb + d /\ SignalsOf(name) = <<event>>
    ELSE now = lsb /\ ~Signalled(name)

\* C19: CC96 and CC97 move the data LSB of the mode by one and emit the value
\* with the new LSB, except that CC96 at 255 and CC97 at 0 leave it and emit
\* nothing; the LSB stays within 0..255
C19_IncDecClamped ==
    /\ \A ch \in 0..(NUM_MIDI_CHANNELS - 1) :
          mdm.RPN_DATA_LSB[ch] \in 0..255 /\ mdm.NRPN_DATA_LSB[ch] \in 0..255
    /\ \A d \in {1, -1} :
          /\ CCInMode(IF d = 1 THEN MIDI_CC_DATA_INC ELSE MIDI_CC_DATA_DEC, MODE_NRPN)
             => Stepped(fwStep.pre.NRPN_DATA_LSB[2], mdm.NRPN_DATA_LSB[2], d,
                        "signalRxMidi_NRPN",
                        <<"signalRxMidi_NRPN", 2,
                          ShiftOr(mdm.NRPN_MSB[2], mdm.NRPN_LSB[2]),
                          ShiftOr(mdm.NRPN_DATA_MSB[2], mdm.NRPN_DATA_LSB[2])>>)
          /\ CCInMode(IF d = 1 THEN MIDI_CC_DATA_INC ELSE MIDI_CC_DATA_DEC, MODE_RPN)
             => Stepped(fwStep.pre.RPN_DATA_LSB[2], mdm.RPN_DATA_LSB[2], d,
                        "signalRxMidi_RPN",
                        <<"signalRxMidi_RPN", 2,
                          ShiftOr(mdm.RPN_MSB[2], mdm.RPN_LSB[2]),
                          ShiftOr(mdm.RPN_DATA_MSB[2], mdm.RPN_DATA_LSB[2])>>)

\* C19: after the NRPN event (2, 5, 128) a CC96 has emitted (2, 5, 129)
C19_IncrementExample ==
    /\ fwStep.op = "midiInCallback"
    /\ fwHist.rxLog = <<<<178, 99, 0>>, <<178, 98, 5>>, <<178, 6, 1>>, <<178, 38, 0>>,
                        <<178, 96, 0>>>>
    /\ SignalsOf("signalRxMidi_NRPN") = <<<<"signalRxMidi_NRPN", 2, 5, 129>>>>

\* the typed event of a system status byte
SystemEvent(statusByte) ==
    CASE statusByte = MIDI_MTC -> "signalRxMidi_MTC"
      [] statusByte = MIDI_SONG_POSITION -> "signalRxMidi_SongPosition"
      [] statusByte = MIDI_SONG_SELECT -> "signalRxMidi_SongSelect"
      [] statusByte = MIDI_TUNE_REQUEST -> "signalRxMidi_TuneReq"
      [] statusByte = MIDI_RT_CLOCK -> "signalRxMidi_Clock"
      [] statusByte = MIDI_RT_START -> "signalRxMidi_Start"
      [] statusByte = MIDI_RT_CONTINUE -> "signalRxMidi_Continue"
      [] statusByte = MIDI_RT_STOP -> "signalRxMidi_Stop"
      [] statusByte = MIDI_RT_ACTIVE_SENSE -> "signalRxMidi_ActSense"
      [] statusByte = MIDI_RT_RESET -> "signalRxMidi_SysReset"
      [] OTHER -> "none"

\* C20: a message with status byte 0xF1, 0xF2, 0xF3, 0xF6, 0xF8, 0xFA, 0xFB,
\* 0xFC, 0xFE or 0xFF that has gone to the parser has emitted the raw event
\* and the typed event of its status byte
C20_TypedSystemEvents ==
    /\ fwStep.op = "midiInCallback"
    /\ fwStep.handed = <<"slotParsePacket">>
    /\ SystemEvent(fwStep.rx[1]) # "none"
    => Signalled("signalRxMidi_raw") /\ Signalled(SystemEvent(fwStep.rx[1]))

\* C20: a clock byte 0xF8 has emitted the raw event with status 0xF0 and
\* channel 8 and nothing else
C20_ClockGivesRawOnly ==
    /\ fwStep.op = "midiInCallback"
    /\ fwStep.handed = <<"slotParsePacket">>
    /\ fwStep.rx = <<MIDI_RT_CLOCK>>
    /\ fwStep.emitted = <<<<"signalRxMidi_raw", 240, 0, 0, 8>>>>


-----------------------------------------------------------------------------
(* The decoder's input checks and the transmit queue                       *)

\* the bytes at offsets 1..3 of the frame are the manufacturer id 00 01 5F
HasManufacturerId(ba) ==
    Len(ba) >= 4 /\ <<At(ba, 1), At(ba, 2), At(ba, 3)>> = <<kmi_id_1, kmi_id_2, kmi_id_3>>

\* C21 (as stated): slotDecodePacket emits no packet for an input whose bytes
\* at offsets 1..3 are not the three byte manufacturer id 00 01 5F.
C21_ForeignIdRejected ==
    codecPc = "decoded" /\ ~HasManufacturerId(frame) => rxPackets = <<>>

\* C21: a frame whose third manufacturer byte is not 5F has been decoded and
\* a packet was emitted for it.
C21_ThirdIdByteIgnored ==
    /\ codecPc = "decoded"
    /\ flipped # <<>> /\ flipped[1] = 3
    /\ At(frame, 1) = kmi_id_1 /\ At(frame, 2) = kmi_id_2 /\ At(frame, 3) # kmi_id_3
    /\ rxPackets # <<>>

\* the length word of the frame's preamble exceeds MAX_SX_BUFFER_SIZE
DeclaredOversize ==
    flipped = <<>> /\ Len(encIn.payload) + TAIL_LEN > MAX_SX_BUFFER_SIZE

\* C22 (as stated): for a declared payload length above MAX_SX_BUFFER_SIZE the
\* decoder emits no packet and never stores a payload byte at index 1024 or
\* above.
C22_OversizeRejected ==
    codecPc = "decoded" /\ DeclaredOversize =>
        /\ rxPackets = <<>>
        /\ decStatus # "write past payload.data"

\* C22: a frame declaring more than 1024 payload bytes has been decoded, the
\* bytes from index 1024 on were written behind payload.data, and a packet
\* longer than the buffer was emitted.
C22_StoredPastBuffer ==
    /\ codecPc = "decoded"
    /\ DeclaredOversize
    /\ rxPackets # <<>>
    /\ rxPackets[1].length > MAX_SX_BUFFER_SIZE
    /\ Len(rxPackets[1].data) > MAX_SX_BUFFER_SIZE

\* the messages queued since the packet was last empty are channel or system
\* messages and SysEx shorter than a chunk
ShortOnly == \A i \in 1..Len(fwHist.queuedLog) : Len(fwHist.queuedLog[i]) < sysExTxChunkSize

\* C23 (as stated): when the packet has drained, the bytes of every message
\* that slotSendMIDI or slotSendSysEx appended have been handed to the
\* transport exactly once and in the order they were appended, also when a
\* short SysEx was appended behind pending channel messages.
C23_AppendedIsHandedInOrder ==
    (/\ fwStep.op \in {"slotSendMIDI", "slotSendSysEx", "slotEmptyMIDIBuffer"}
     /\ mdm.port_out_open
     /\ QueueAtRest(mdm)
     /\ ShortOnly) =>
        Flatten(fwHist.wireLog) = Flatten(fwHist.queuedLog)

\* C23: a note was pending when slotSendSysEx appended a short SysEx; the
\* SysEx was handed to the transport, the packet was cleared and the note was
\* never handed over.
C23_NoteLostBehindSysEx ==
    /\ fwStep.op = "slotSendSysEx"
    /\ mdm.port_out_open
    /\ mdm.connected
    /\ QueueAtRest(mdm)
    /\ fwHist.queuedLog = <<SendMIDIBytes(MIDI_NOTE_ON, 60, 64, 0), QueueFrame(6)>>
    /\ fwHist.wireLog = <<QueueFrame(6)>>

\* C24 (as stated): when a call of slotSendSysEx has returned, also with the
\* output port not open, ioGate is true.
C24_GateOpenAfterSendSysEx == fwStep.op = "slotSendSysEx" => mdm.ioGate

\* C24: slotSendSysEx was called with the output port not open and has left
\* ioGate false; the next slotSendMIDI is turned away at the gate.
C24_GateLeftClosed ==
    /\ fwStep.op = "slotSendMIDI"
    /\ mdm.connected
    /\ ~mdm.port_out_open
    /\ ~fwStep.pre.ioGate
    /\ ~mdm.ioGate
    /\ mdm.packet = <<>>

\* C29 (as stated): whenever the output port is not open the outgoing buffer
\* is empty.
C29_ClosedPortEmptyBuffer == ~mdm.port_out_open => mdm.packet = <<>>

\* C29: slotCloseMidiOut has left bytes in the packet, the port has been
\* opened again, and midiSendTimer has handed bytes from the front of that
\* packet to the transport.
C29_StaleBytesSentAfterReopen ==
    /\ fwStep.op = "slotEmptyMIDIBuffer"
    /\ mdm.port_out_open
    /\ fwHist.stale > 0
    /\ fwStep.pre.queued >= fwHist.stale
    /\ fwStep.sent # <<>>

\* one SysEx longer than a chunk and no longer than MAX_MIDI_SYSEX_SIZE went
\* into the empty packet, nothing was appended behind it, and the packet has
\* drained with the output port open
LongFrameDrained ==
    /\ fwStep.op = "slotEmptyMIDIBuffer"
    /\ mdm.port_out_open
    /\ QueueAtRest(mdm)
    /\ fwHist.stale = 0
    /\ Len(fwHist.queuedLog) = 1
    /\ Len(fwHist.queuedLog[1]) > sysExTxChunkSize

\* the frame as the chunk branch transmits it: a last chunk of fewer than 6
\* bytes has 10 zeros put in before its 0xF7
WithLastChunkPadded(f) ==
    IF Len(f) % sysExTxChunkSize \in 1..5
    THEN SubSeq(f, 1, Len(f) - 1) \o [i \in 1..10 |-> 0] \o <<MIDI_SX_STOP>>
    ELSE f

-----------------------------------------------------------------------------
(* The end of an update *)

\* C25 (as stated): an identity reply that is processed between the tick that
\* set FAIL or SUCCESS and the next tick leaves the outcome as it is: the
\* state machine is still in FAIL or in SUCCESS when the reply has been
\* processed.
C25_ReplyKeepsOutcome ==
    (/\ fwStep.op = "slotProcessSysEx"
     /\ fwStep.from \in {FWUD_STATE_FAIL, FWUD_STATE_SUCCESS}) =>
        mdm.firmwareUpdateState = fwStep.from

\* C25: a wait had run out and the tick had set the state to FAIL when
\* a reply that reports the expected version came in; the state is SUCCESS.
C25_FailTurnedToSuccess ==
    /\ fwStep.op = "slotProcessSysEx"
    /\ fwStep.from = FWUD_STATE_FAIL
    /\ ~mdm.fwSaveRestoreGlobals
    /\ mdm.firmwareUpdateState = FWUD_STATE_SUCCESS

\* C26 (as stated): the firmware image is handed to the output at most once
\* in an update.
C26_ImageSentAtMostOnce == fwHist.imageSends <= 1

\* C26: the tick that processes FW_SEND has handed the image to the output
\* for the second time in the same update.
C26_ImageHandedTwice ==
    /\ fwStep.op = "slotPollVersion"
    /\ fwStep.from = FWUD_STATE_FW_SEND
    /\ fwHist.imageSends = 2
    /\ mdm.port_out_open
    /\ mdm.firmwareUpdateState = FWUD_STATE_FW_SENT_WAIT

\* the last call was the tick that processed FW_SEND with the output port not
\* open: the polling block has not run, and the port is closed as it was
FwSendWithPortClosed ==
    /\ fwStep.op = "slotPollVersion"
    /\ fwStep.from = FWUD_STATE_FW_SEND
    /\ ~fwStep.polling
    /\ ~mdm.port_out_open

\* C27 (as stated): when the output port is not open as FW_SEND is processed,
\* the state after the tick is FAIL.
C27_ClosedPortFails ==
    FwSendWithPortClosed => mdm.firmwareUpdateState = FWUD_STATE_FAIL

\* C27: FW_SEND was processed with the firmware file loaded and the output
\* port not open; nothing was handed to the output, and the state is
\* FW_SENT_WAIT.
C27_WaitsWithPortClosed ==
    /\ FwSendWithPortClosed
    /\ mdm.firmwareByteArray # <<>>
    /\ fwStep.sent = <<>>
    /\ mdm.packet = <<>>
    /\ mdm.firmwareUpdateState = FWUD_STATE_FW_SENT_WAIT

\* C28 (as stated): a tick that leaves the state machine in the *_SENT_WAIT
\* state it found does not reset the time in state: the timer reads after the
\* tick what it read when the tick began.
C28_TimerResetOnlyByTransition ==
    (/\ fwStep.op = "slotPollVersion"
     /\ fwStep.from \in {FWUD_STATE_GLOBALS_REQ_SENT_WAIT, FWUD_STATE_BL_SENT_WAIT,
                         FWUD_STATE_FW_SENT_WAIT}
     /\ mdm.firmwareUpdateState = fwStep.from) =>
        mdm.firmwareUpdateStateTimer = fwStep.elapsed

\* C28: the state is FW_SENT_WAIT, the output port is closed with bytes left
\* in the buffer, the tick has restarted the timer, and the next tick leaves
\* the object exactly as it is: the wait does not end while only ticks come.
C28_WaitNeverEnds ==
    /\ fwStep.op = "slotPollVersion"
    /\ fwStep.from = FWUD_STATE_FW_SENT_WAIT
    /\ mdm.firmwareUpdateState = FWUD_STATE_FW_SENT_WAIT
    /\ ~mdm.port_out_open
    /\ mdm.packet # <<>>
    /\ mdm.firmwareUpdateStateTimer = 0
    /\ Fields(slotPollVersion(Call(mdm, FALSE), PollInterval)) = mdm

-----------------------------------------------------------------------------
(* The chunks of a large SysEx *)

\* the calls of slotEmptyMIDIBuffer that transmit one SysEx longer than a
\* chunk, which went into the empty packet with nothing appended behind it
LongFrameUnderWay ==
    /\ fwStep.op = "slotEmptyMIDIBuffer"
    /\ mdm.port_out_open
    /\ fwHist.stale = 0
    /\ Len(fwHist.queuedLog) = 1
    /\ Len(fwHist.queuedLog[1]) > sysExTxChunkSize

\* C31: a buffered SysEx longer than the chunk size goes out as chunks of
\* exactly sysExTxChunkSize bytes followed by one last chunk that is shorter,
\* and no call transmits more than one of them, so that the test of the chunk
\* timer lies between any two transmissions.
C31_ChunksOfChunkSizeThenShorter ==
    /\ LongFrameUnderWay => Len(fwStep.sent) <= 1
    /\ LongFrameDrained =>
          /\ \A i \in 1..(Len(fwHist.wireLog) - 1) :
                Len(fwHist.wireLog[i]) = sysExTxChunkSize
          /\ Len(fwHist.wireLog[Len(fwHist.wireLog)]) < sysExTxChunkSize

\* C31: a frame of 96 bytes has gone out as one chunk of 48 bytes and then,
\* in one call that did not read the chunk timer, as a message of its next
\* 47 bytes and a message holding the 0xF7.
C31_RemainderOfChunkSizeSentUnchunked ==
    /\ LongFrameDrained
    /\ Len(fwHist.queuedLog[1]) = 2 * sysExTxChunkSize
    /\ Len(fwHist.wireLog) = 3
    /\ Len(fwHist.wireLog[1]) = sysExTxChunkSize
    /\ Len(fwHist.wireLog[2]) = sysExTxChunkSize - 1
    /\ fwHist.wireLog[3] = <<MIDI_SX_STOP>>
    /\ fwStep.sent = <<fwHist.wireLog[2], fwHist.wireLog[3]>>
    /\ fwStep.pre.queued = sysExTxChunkSize

-----------------------------------------------------------------------------
(* The bytes under the checksums *)

\* a frame that reached the decoder as it was encoded, with a payload that
\* the decoder has room for
DecodedAsEncoded ==
    /\ codecPc = "decoded"
    /\ flipped = <<>>
    /\ Len(encIn.payload) + TAIL_LEN <= MAX_SX_BUFFER_SIZE

\* the bytes the encoder and the decoder called crc_byte with for the frame
\* at hand, one run for each time crc was set to 0xffff
EncoderFed ==
    EncodedPacket(encIn.PID, encIn.category, encIn.type, encIn.payload, charSigned).fed
DecoderFed == slotDecodePacket(frame, charSigned, "fault").fed

\* category, type and the length word as the encoder writes it
PreambleWords ==
    <<encIn.category, encIn.type,
      ((Len(encIn.payload) + TAIL_LEN) \div 256) % 256, (Len(encIn.payload) + TAIL_LEN) % 256>>

\* C32: the encoder and the decoder feed the same bytes into the crc: one run
\* from 0xffff over category, type and the length word, and for a payload a
\* second run from 0xffff over the payload bytes and nothing else; no byte
\* that stores a crc is fed.
C32_SameBytesUnderCrc ==
    DecodedAsEncoded =>
        /\ EncoderFed = DecoderFed
        /\ EncoderFed = IF encIn.payload = <<>> THEN <<PreambleWords>>
                        ELSE <<PreambleWords, encIn.payload>>

\* C32: for a payload of one byte the encoder has fed the payload and the two
\* bytes of the next length, and the decoder these three and the two bytes
\* that store the payload crc.
C32_CrcBytesUnderDecoderCrc ==
    /\ DecodedAsEncoded
    /\ Len(encIn.payload) = 1
    /\ EncoderFed = <<PreambleWords, encIn.payload \o <<0, 0>> >>
    /\ LET crc == EncodedPacket(encIn.PID, encIn.category, encIn.type, encIn.payload,
                                charSigned).crc
       IN  DecoderFed = <<PreambleWords,
                          encIn.payload \o <<0, 0, crc \div 256, crc % 256>> >>

-----------------------------------------------------------------------------
(* The groups of eight bytes *)

\* the bytes the encoder packs for the packet at hand: category, type, the
\* length word, the preamble crc, and for a payload the payload, the next
\* length and the payload crc
PackedBytes ==
    LET pcrc == midi_sx_packet_preamble(midi_sx_header(encIn.PID),
                                        encIn.category * 256 + encIn.type,
                                        Len(encIn.payload), charSigned).crc
        dcrc == EncodedPacket(encIn.PID, encIn.category, encIn.type, encIn.payload,
                              charSigned).crc
    IN  PreambleWords \o <<pcrc \div 256, pcrc % 256>>
        \o (IF encIn.payload = <<>> THEN <<>>
            ELSE encIn.payload \o <<0, 0, dcrc \div 256, dcrc % 256>>)

\* C33: behind the 0x01 marker and before the 0xF7 the frame is made of
\* groups of 8 bytes: 7 data bytes with bit 7 cleared, then one continuation
\* byte whose bit i is bit 7 of the i-th data byte of the group; the last
\* group is filled up with zero bytes; no byte between 0xF0 and 0xF7 is
\* above 0x7F.
C33_GroupsOfSevenAndContinuation ==
    codecPc = "encoded" /\ flipped = <<>> =>
        LET packed == PackedBytes
            groups == (Len(packed) + SX_ENCODE_LEN - 1) \div SX_ENCODE_LEN
            \* packed byte number k (from 1), zero behind the last one
            PackedByte(k) == IF k <= Len(packed) THEN packed[k] ELSE 0
        IN  /\ frame[1] = MIDI_SX_START
            /\ frame[PackedStart] = 1
            /\ Len(frame) = PackedStart + groups * (SX_ENCODE_LEN + 1) + 1
            /\ frame[Len(frame)] = MIDI_SX_STOP
            /\ \A g \in 0..(groups - 1) : \A i \in 0..(SX_ENCODE_LEN - 1) :
                  /\ frame[PackedStart + g * (SX_ENCODE_LEN + 1) + i + 1]
                        = PackedByte(g * SX_ENCODE_LEN + i + 1) % 128
                  /\ Bit(frame[PackedStart + (g + 1) * (SX_ENCODE_LEN + 1)], i)
                        = PackedByte(g * SX_ENCODE_LEN + i + 1) \div 128
            /\ \A j \in 2..(Len(frame) - 1) : frame[j] <= 127

\* C33: a payload of 8 bytes with bytes above 0x7F has been encoded: 18
\* packed bytes in three groups, the last one filled up with three zero bytes,
\* and a continuation byte that is not zero.
C33_PartialGroupPadded ==
    /\ codecPc = "encoded"
    /\ flipped = <<>>
    /\ Len(encIn.payload) = 8
    /\ \E k \in 1..8 : encIn.payload[k] >= 128
    /\ Len(PackedBytes) = 18
    /\ Len(frame) = PackedStart + 3 * (SX_ENCODE_LEN + 1) + 1
    /\ SubSeq(frame, Len(frame) - 4, Len(frame) - 2) = <<0, 0, 0>>
    /\ \E g \in 1..3 : frame[PackedStart + g * (SX_ENCODE_LEN + 1)] # 0

-----------------------------------------------------------------------------
(* The parameter state *)

\* the parameter state of every channel is as the constructor leaves it, or
\* as slotInitNRPN does, with the mode and the NRPN data LSB as constructed
ParamStateAtDefaults ==
    LET ParamState(m) ==
            [f \in {"paramMode", "RPN_MSB", "RPN_LSB", "NRPN_MSB", "NRPN_LSB",
                    "RPN_DATA_MSB", "RPN_DATA_LSB", "NRPN_DATA_MSB", "NRPN_DATA_LSB",
                    "LAST_SENT_NRPN"} |-> m[f]]
    IN  \/ ParamState(mdm) = ParamState(Constructed)
        \/ ParamState(mdm) = ParamState(slotInitNRPN(Constructed))

\* C34: when slotUpdatePortIn or slotUpdatePortOut has opened its port, the
\* parameter state of every channel is at its defaults: the RPN and NRPN
\* addresses and data, the last parameter number sent and the addressing
\* mode.
C34_DefaultsAfterOpen ==
    /\ fwStep.op = "slotUpdatePortIn" /\ mdm.port_in_open => ParamStateAtDefaults
    /\ fwStep.op = "slotUpdatePortOut" /\ mdm.port_out_open => ParamStateAtDefaults

\* C34: the output port has been opened again after an NRPN address and a
\* data LSB had come in, and the mode is still NRPN and the data LSB of
\* channel 2 still 7, the addresses being reset.
C34_ModeAndDataLSBKept ==
    /\ fwStep.op = "slotUpdatePortOut"
    /\ mdm.port_out_open
    /\ fwStep.pre.paramMode = MODE_NRPN
    /\ fwStep.pre.NRPN_MSB[1] = 0
    /\ mdm.NRPN_MSB[1] = 255
    /\ mdm.paramMode = MODE_NRPN
    /\ mdm.NRPN_DATA_LSB[2] = 7

\* a control change cc has come in on channel chan since the parameter state
\* was last reset
ReceivedCC(cc, chan) ==
    \E i \in 1..Len(fwHist.rxLog) :
        /\ Len(fwHist.rxLog[i]) = 3
        /\ fwHist.rxLog[i][1] = MIDI_CONTROL_CHANGE + chan
        /\ fwHist.rxLog[i][2] = cc

\* C35: an RPN or NRPN value is emitted for a channel only when, since the
\* last reset, the address MSB and the address LSB of that mode and a data
\* LSB (CC38) have come in on that channel.
C35_ValueOnlyWhenComplete ==
    fwStep.op = "midiInCallback" =>
        \A i \in 1..Len(fwStep.emitted) :
            /\ fwStep.emitted[i][1] = "signalRxMidi_NRPN" =>
                  /\ ReceivedCC(MIDI_CC_NRPN_MSB, fwStep.emitted[i][2])
                  /\ ReceivedCC(MIDI_CC_NRPN_LSB, fwStep.emitted[i][2])
                  /\ ReceivedCC(MIDI_CC_DATA_LSB, fwStep.emitted[i][2])
            /\ fwStep.emitted[i][1] = "signalRxMidi_RPN" =>
                  /\ ReceivedCC(MIDI_CC_RPN_MSB, fwStep.emitted[i][2])
                  /\ ReceivedCC(MIDI_CC_RPN_LSB, fwStep.emitted[i][2])
                  /\ ReceivedCC(MIDI_CC_DATA_LSB, fwStep.emitted[i][2])

\* C35: after the reset only the NRPN address MSB and a data LSB have come in
\* on channel 2, and an NRPN value is emitted for parameter 255, the address
\* LSB being the 255 of the reset.
C35_ValueWithoutAddressLSB ==
    /\ fwStep.op = "midiInCallback"
    /\ fwHist.rxLog = <<<<178, 99, 0>>, <<178, 38, 0>>>>
    /\ fwStep.pre.NRPN_LSB[2] = 255
    /\ fwStep.emitted[Len(fwStep.emitted)] = <<"signalRxMidi_NRPN", 2, 255, 0>>

\* the kind of the address CC that came in last on channel chan before the
\* message at hand: MODE_RPN, MODE_NRPN, or MODE_UNDEF where none has
LastAddressKind(chan) ==
    LET n == Len(fwHist.rxLog) - 1
        IsAddress(i) ==
            /\ Len(fwHist.rxLog[i]) = 3
            /\ fwHist.rxLog[i][1] = MIDI_CONTROL_CHANGE + chan
            /\ fwHist.rxLog[i][2] \in {MIDI_CC_RPN_LSB, MIDI_CC_RPN_MSB,
                                       MIDI_CC_NRPN_LSB, MIDI_CC_NRPN_MSB}
        addresses == {i \in 1..n : IsAddress(i)}
        last == CHOOSE i \in addresses : \A j \in addresses : j <= i
    IN  IF addresses = {} THEN MODE_UNDEF
        ELSE IF fwHist.rxLog[last][2] \in {MIDI_CC_RPN_LSB, MIDI_CC_RPN_MSB} THEN MODE_RPN
        ELSE MODE_NRPN

\* a data entry, increment or decrement has come in on channel chan
DataCCOn(chan) ==
    /\ fwStep.op = "midiInCallback"
    /\ Len(fwStep.rx) = 3
    /\ fwStep.rx[1] = MIDI_CONTROL_CHANGE + chan
    /\ fwStep.rx[2] \in {MIDI_CC_DATA_MSB, MIDI_CC_DATA_LSB, MIDI_CC_DATA_INC, MIDI_CC_DATA_DEC}
    /\ fwHist.rxLog # <<>>
    /\ fwHist.rxLog[Len(fwHist.rxLog)] = fwStep.rx

\* C36: the addressing mode is kept for each channel: a CC6, CC38, CC96 or
\* CC97 on a channel emits an RPN value when the last address CC on that
\* channel was an RPN address and an NRPN value when it was an NRPN address,
\* whatever address CCs have come in on other channels.
C36_ModePerChannel ==
    \A chan \in 0..(NUM_MIDI_CHANNELS - 1) :
        DataCCOn(chan) =>
            /\ LastAddressKind(chan) = MODE_RPN => ~Signalled("signalRxMidi_NRPN")
            /\ LastAddressKind(chan) = MODE_NRPN => ~Signalled("signalRxMidi_RPN")

\* C36: an RPN address on channel 2, an NRPN address on channel 1, then a
\* CC38 on channel 2: it is NRPN_DATA_LSB[2] that is written and an NRPN
\* value that is emitted for channel 2.
C36_OtherChannelSwitchesMode ==
    /\ fwStep.op = "midiInCallback"
    /\ fwHist.rxLog = <<<<178, 101, 0>>, <<177, 99, 0>>, <<178, 38, 7>>>>
    /\ mdm.NRPN_DATA_LSB[2] = 7
    /\ mdm.RPN_DATA_LSB[2] = 0
    /\ Signalled("signalRxMidi_NRPN")
    /\ ~Signalled("signalRxMidi_RPN")

\* a control change of three bytes has come in and gone to slotParsePacket
ControlChangeParsed ==
    /\ fwStep.op = "midiInCallback"
    /\ fwStep.handed = <<"slotParsePacket">>
    /\ Len(fwStep.rx) = 3
    /\ fwStep.rx[1] - (fwStep.rx[1] % 16) = MIDI_CONTROL_CHANGE

\* the controllers the parameter assembler handles
ParamControllers ==
    {MIDI_CC_DATA_MSB, MIDI_CC_DATA_LSB, MIDI_CC_DATA_INC, MIDI_CC_DATA_DEC,
     MIDI_CC_NRPN_LSB, MIDI_CC_NRPN_MSB, MIDI_CC_RPN_LSB, MIDI_CC_RPN_MSB}

\* the raw event of the control change at hand
RawEventEmitted ==
    SignalsOf("signalRxMidi_raw") =
        <<<<"signalRxMidi_raw", MIDI_CONTROL_CHANGE, fwStep.rx[2], fwStep.rx[3],
            fwStep.rx[1] % 16>>>>

\* C37 (as stated): a control change with controller 6, 38 or 96..101 gives
\* the raw event and no typed control-change event; every other control
\* change gives both.
C37_ParamCCsNotForwarded ==
    ControlChangeParsed =>
        /\ RawEventEmitted
        /\ Signalled("signalRxMidi_controlChange") <=> fwStep.rx[2] \notin ParamControllers

\* C37 (amended): every control change, those with controller 6, 38 or
\* 96..101 included, gives the raw event first and then the typed
\* control-change event; the parameter assembler acts after them.
C37_EveryCCRawAndTyped ==
    ControlChangeParsed =>
        /\ RawEventEmitted
        /\ Len(fwStep.emitted) >= 2
        /\ fwStep.emitted[1][1] = "signalRxMidi_raw"
        /\ fwStep.emitted[2] = <<"signalRxMidi_controlChange", fwStep.rx[1] % 16,
                                 fwStep.rx[2], fwStep.rx[3]>>
        /\ Len(SignalsOf("signalRxMidi_controlChange")) = 1

\* C37: a CC38 has come in in NRPN mode and has given the raw event, the
\* typed control-change event and the NRPN value, in this order.
C37_DataLSBForwardedAsCC ==
    /\ ControlChangeParsed
    /\ fwStep.rx = <<178, 38, 7>>
    /\ fwStep.pre.paramMode = MODE_NRPN
    /\ Len(fwStep.emitted) = 3
    /\ fwStep.emitted[1][1] = "signalRxMidi_raw"
    /\ fwStep.emitted[2] = <<"signalRxMidi_controlChange", 2, 38, 7>>
    /\ fwStep.emitted[3][1] = "signalRxMidi_NRPN"

-----------------------------------------------------------------------------
(* Parameters sent *)

\* slotSendMIDI_NRPN has returned from a call with a channel below 16, made
\* when LAST_SENT_NRPN had been written by slotInitNRPN
NrpnCalled ==
    /\ fwStep.op = "slotSendMIDI_NRPN"
    /\ fwHist.nrpnCall # <<>>
    /\ fwHist.nrpnCall[3] < NUM_MIDI_CHANNELS
    /\ fwStep.pre.LAST_SENT_NRPN[fwHist.nrpnCall[3]] # Indeterminate

C39_DataFollowsItsAddress ==
    /\ NrpnCalled
    /\ mdm.port_out_open
    /\ AllQueued(DataCCs(fwHist.nrpnCall[2], fwHist.nrpnCall[3]), fwStep.queued)
    => fwHist.addrQueued[fwHist.nrpnCall[3]] = <<fwHist.nrpnCall[1]>>

\* C39: the output port has been opened, a call for parameter 5 on channel 1
\* was dropped by slotSendMIDI and remembered all the same, and the next call
\* for parameter 5 queues the data CCs with no address queued on the channel.
C39_DataWithoutAddress ==
    /\ fwStep.op = "slotSendMIDI_NRPN"
    /\ fwHist.nrpnCall = <<5, 300, 1>>
    /\ fwStep.pre.LAST_SENT_NRPN[1] = 5
    /\ fwStep.pre.connected /\ fwStep.pre.ioGate
    /\ mdm.port_out_open
    /\ fwStep.queued = DataCCs(300, 1)
    /\ fwHist.addrQueued[1] = <<>>

-----------------------------------------------------------------------------
(* Connected and the ports *)

\* C40 (as stated): a session of a device with ports of its own is connected
\* only while its input port and its output port are both open.
C40_ConnectedOnlyWithBothPorts ==
    mdm.deviceName # "AUX" /\ mdm.connected => mdm.port_in_open /\ mdm.port_out_open

\* C40: the SUCCESS tick of an update has run after the output port was
\* closed, and has left the session connected with only its input port open.
C40_ConnectedAfterSuccessTick ==
    /\ fwStep.op = "slotPollVersion"
    /\ fwStep.from = FWUD_STATE_SUCCESS
    /\ mdm.deviceName # "AUX"
    /\ ~fwStep.pre.connected
    /\ mdm.connected
    /\ mdm.port_in_open
    /\ ~mdm.port_out_open
-----------------------------------------------------------------------------
(* Specifications *)

\* the codec alone, the registry as constructed on one platform
InitForCodec ==
    /\ InitCodec
    /\ InitPorts
    /\ os = "Q_OS_LINUX"
    /\ InitFw

SpecCodec == InitForCodec /\ [][NextCodec]_vars

\* the registry alone, the codec idle
InitForPorts ==
    /\ InitPorts
    /\ CodecIdle
    /\ charSigned = FALSE
    /\ InitFw

SpecPorts == InitForPorts /\ [][NextPorts]_vars

\* the session of a QuNexus that stays plugged in, in a Linux build; the
\* registry has not scanned yet
InitForFw ==
    /\ InitFw
    /\ CodecIdle
    /\ charSigned = FALSE
    /\ os = "Q_OS_LINUX"
    /\ osIn = <<[dev |-> "QuNexus", ord |-> 1]>>
    /\ osOut = <<[dev |-> "QuNexus", ord |-> 1]>>
    /\ midiInputPorts = EmptyMap
    /\ midiOutputPorts = EmptyMap
    /\ lastMIDIIN_QuNexus = 0
    /\ lastMIDIOUT_QuNexus = 0
    /\ ScanIdle

SpecFw == InitForFw /\ [][NextFw]_vars

\* the session of a QuNexus and the ports the OS enumerates, in a Linux build;
\* no update is asked for
InitForSession ==
    /\ InitFw
    /\ CodecIdle
    /\ charSigned = FALSE
    /\ os = "Q_OS_LINUX"
    /\ osIn = <<[dev |-> "QuNexus", ord |-> 1]>>
    /\ osOut = <<[dev |-> "QuNexus", ord |-> 1]>>
    /\ midiInputPorts = EmptyMap
    /\ midiOutputPorts = EmptyMap
    /\ lastMIDIIN_QuNexus = 0
    /\ lastMIDIOUT_QuNexus = 0
    /\ ScanIdle

SpecSession == InitForSession /\ [][NextSession]_vars

\* the session that sends to a QuNexus that stays plugged in
SpecSend == InitForFw /\ [][NextSend]_vars

\* the session that receives from a QuNexus that stays plugged in
SpecParser == InitForFw /\ [][NextParser]_vars

\* the manager of an auxiliary port: it is connected as soon as a port is open
InitForQueue ==
    /\ mdm = slotUpdatePID(Constructed, PID_AUX)
    /\ fwStep = NoStep
    /\ fwHist = NoHist
    /\ CodecIdle
    /\ charSigned = FALSE
    /\ os = "Q_OS_LINUX"
    /\ osIn = <<[dev |-> "QuNexus", ord |-> 1]>>
    /\ osOut = <<[dev |-> "QuNexus", ord |-> 1]>>
    /\ midiInputPorts = EmptyMap
    /\ midiOutputPorts = EmptyMap
    /\ lastMIDIIN_QuNexus = 0
    /\ lastMIDIOUT_QuNexus = 0
    /\ ScanIdle

SpecQueue == InitForQueue /\ [][NextQueue]_vars

\* the same manager, with the parameters it receives
SpecParams == InitForQueue /\ [][NextParams]_vars

\* the same manager, with the parameters it sends
SpecNrpn == InitForQueue /\ [][NextNrpn]_vars

=============================================================================
